---- MODULE Spec2Model ----
(***************************************************************************)
(* A model of the WhatsApp transport-booking bot.                          *)
(*                                                                         *)
(* The program is services/conversationService.js (the conversation        *)
(* engine, handleIncomingMessage), the sessionService it calls (the later  *)
(* revision in src/unnamed/part_003, lines 126-275) and the Mongoose       *)
(* models Session, Route, Departure and Booking.  A webhook request runs   *)
(* handleIncomingMessage as an async function: every `await` of a database *)
(* or HTTP call is a point where another request's handler may run, so a   *)
(* handler is a process whose atomic steps are the awaited calls.          *)
(*                                                                         *)
(* Strings are sequences of one-character strings, so that toLowerCase,    *)
(* trim, parseInt and the comparisons of the code are computed, not        *)
(* assumed.  A nullable field is <<>> (null / undefined) or <<v>>.         *)
(***************************************************************************)
EXTENDS Integers, Sequences, FiniteSets, TLC

(***************************************************************************)
(* JavaScript strings                                                      *)
(***************************************************************************)
UpperLetters == <<"A","B","C","D","E","F","G","H","I","J","K","L","M",
                  "N","O","P","Q","R","S","T","U","V","W","X","Y","Z">>
LowerLetters == <<"a","b","c","d","e","f","g","h","i","j","k","l","m",
                  "n","o","p","q","r","s","t","u","v","w","x","y","z">>
Digits == <<"0","1","2","3","4","5","6","7","8","9">>

IndexIn(c, seq) ==
    IF \E i \in 1..Len(seq) : seq[i] = c
    THEN CHOOSE i \in 1..Len(seq) : seq[i] = c
    ELSE 0

IsDigit(c) == IndexIn(c, Digits) # 0
DigitVal(c) == IndexIn(c, Digits) - 1

LowerChar(c) == IF IndexIn(c, UpperLetters) # 0
                THEN LowerLetters[IndexIn(c, UpperLetters)] ELSE c
UpperChar(c) == IF IndexIn(c, LowerLetters) # 0
                THEN UpperLetters[IndexIn(c, LowerLetters)] ELSE c

\* String.prototype.toLowerCase / toUpperCase
toLowerCase(s) == [i \in 1..Len(s) |-> LowerChar(s[i])]
toUpperCase(s) == [i \in 1..Len(s) |-> UpperChar(s[i])]

RECURSIVE TrimLeft(_)
TrimLeft(s) == IF s # <<>> /\ Head(s) = " " THEN TrimLeft(Tail(s)) ELSE s
RECURSIVE TrimRight(_)
TrimRight(s) == IF s # <<>> /\ s[Len(s)] = " "
                THEN TrimRight(SubSeq(s, 1, Len(s) - 1)) ELSE s
\* String.prototype.trim
trim(s) == TrimRight(TrimLeft(s))

\* Number.NaN: a value no comparison of the model reads as a number; the code
\* tests isNaN before it compares.
NaN == -999999
isNaN(n) == n = NaN

RECURSIVE LeadingDigits(_)
LeadingDigits(s) == IF s # <<>> /\ IsDigit(Head(s))
                    THEN <<Head(s)>> \o LeadingDigits(Tail(s)) ELSE <<>>
RECURSIVE DigitsValue(_)
DigitsValue(ds) == IF ds = <<>> THEN 0
                   ELSE 10 * DigitsValue(SubSeq(ds, 1, Len(ds) - 1))
                        + DigitVal(ds[Len(ds)])
\* parseInt(s, 10): leading white space is skipped, an optional sign is read,
\* then the longest run of digits; no digit gives NaN.
parseInt(s) ==
    LET t    == TrimLeft(s)
        neg  == t # <<>> /\ Head(t) = "-"
        body == IF t # <<>> /\ Head(t) \in {"-", "+"} THEN Tail(t) ELSE t
        ds   == LeadingDigits(body)
    IN  IF ds = <<>> THEN NaN
        ELSE IF neg THEN 0 - DigitsValue(ds) ELSE DigitsValue(ds)

startsWith(s, prefix) ==
    Len(s) >= Len(prefix) /\ SubSeq(s, 1, Len(prefix)) = prefix


(***************************************************************************)
(* JavaScript Date, at the granularity the program uses.  A Date at UTC    *)
(* midnight is the number of days since 1970-01-01; a departure time is    *)
(* the number of hours since 1970-01-01T00:00Z.                            *)
(***************************************************************************)
HoursPerDay == 24

\* Date.UTC(year, monthIndex, day) / 86400000: out-of-range months and days
\* roll over into the next (or previous) month or year; a year 0..99 means
\* 1900 + year.
DateUTC(year, monthIndex, day) ==
    LET y0  == IF year >= 0 /\ year <= 99 THEN 1900 + year ELSE year
        y1  == y0 + (monthIndex \div 12)
        m   == (monthIndex % 12) + 1
        y   == IF m <= 2 THEN y1 - 1 ELSE y1
        era == y \div 400
        yoe == y - era * 400
        mp  == IF m > 2 THEN m - 3 ELSE m + 9
        doy == (153 * mp + 2) \div 5
        doe == yoe * 365 + (yoe \div 4) - (yoe \div 100) + doy
    IN  era * 146097 + doe - 719468 + (day - 1)

\* The civil date of a day number: [year, month (0-based), date], as
\* getUTCFullYear / getUTCMonth / getUTCDate return them.
CivilOf(days) ==
    LET z   == days + 719468
        era == z \div 146097
        doe == z - era * 146097
        yoe == (doe - (doe \div 1460) + (doe \div 36524) - (doe \div 146096)) \div 365
        doy == doe - (365 * yoe + (yoe \div 4) - (yoe \div 100))
        mp  == (5 * doy + 2) \div 153
        d   == doy - ((153 * mp + 2) \div 5) + 1
        m   == IF mp < 10 THEN mp + 3 ELSE mp - 9
        y   == yoe + era * 400 + (IF m <= 2 THEN 1 ELSE 0)
    IN  [year |-> y, month |-> m - 1, date |-> d]

\* A getUTCDay that counts the days of the week from Monday.
getUTCDayFromMonday(days) == (days + 3) % 7

\* Date.prototype.getUTCDay: 0 is Sunday; 1970-01-01 was a Thursday.
getUTCDay(days) == (days + 4) % 7

WeekDays == << <<"s","u","n","d","a","y">>, <<"m","o","n","d","a","y">>,
               <<"t","u","e","s","d","a","y">>,
               <<"w","e","d","n","e","s","d","a","y">>,
               <<"t","h","u","r","s","d","a","y">>, <<"f","r","i","d","a","y">>,
               <<"s","a","t","u","r","d","a","y">> >>

\* /^\d{4}-\d{2}-\d{2}$/.test(s)
IsYMD(s) ==
    /\ Len(s) = 10
    /\ \A i \in {1,2,3,4,6,7,9,10} : IsDigit(s[i])
    /\ s[5] = "-" /\ s[8] = "-"

\* A parseDateInput that takes what Date.UTC makes of a YYYY-MM-DD input
\* without comparing the parts and without looking at the current day.
parseDateInputUnvalidated(input, today) ==
    LET normalizedInput == toLowerCase(trim(input))
    IN  IF normalizedInput = <<"t","o","d","a","y">> THEN <<today>>
        ELSE IF normalizedInput = <<"t","o","m","o","r","r","o","w">>
        THEN <<today + 1>>
        ELSE IF IsYMD(normalizedInput)
        THEN <<DateUTC(parseInt(SubSeq(normalizedInput, 1, 4)),
                       parseInt(SubSeq(normalizedInput, 6, 7)) - 1,
                       parseInt(SubSeq(normalizedInput, 9, 10)))>>
        ELSE <<>>

\* parseDateInput(input), with `today` the current day (new Date() cut to UTC
\* midnight).  The result is <<>> (null) or <<day>>.
parseDateInput(input, today) ==
    LET normalizedInput == toLowerCase(trim(input))
        parsedDate ==
            IF normalizedInput = <<"t","o","d","a","y">> THEN <<today>>
            ELSE IF normalizedInput = <<"t","o","m","o","r","r","o","w">>
            THEN <<today + 1>>
            ELSE IF startsWith(normalizedInput, <<"n","e","x","t"," ">>)
            THEN LET dayOfWeekStr == SubSeq(normalizedInput, 6, Len(normalizedInput))
                     dayIndex == IndexIn(dayOfWeekStr, WeekDays) - 1
                     daysToAdd == dayIndex - getUTCDay(today)
                 IN  IF dayIndex = -1 THEN <<>>
                     ELSE IF daysToAdd <= 0 THEN <<today + daysToAdd + 7>>
                     ELSE <<today + daysToAdd>>
            ELSE IF IsYMD(normalizedInput)
            THEN LET year  == parseInt(SubSeq(normalizedInput, 1, 4))
                     month == parseInt(SubSeq(normalizedInput, 6, 7)) - 1
                     day   == parseInt(SubSeq(normalizedInput, 9, 10))
                     d     == DateUTC(year, month, day)
                     c     == CivilOf(d)
                 IN  IF c.year # year \/ c.month # month \/ c.date # day
                     THEN <<>> ELSE <<d>>
            ELSE <<>>
    IN  IF parsedDate # <<>> /\ parsedDate[1] < today THEN <<>> ELSE parsedDate

\* A validateChoice that takes a number beyond the list for the last option.
validateChoiceClamped(userInput, options) ==
    LET normalizedInput == toLowerCase(trim(userInput))
        num == parseInt(normalizedInput)
    IN  IF ~isNaN(num) /\ num > 0 /\ options # <<>>
        THEN <<options[IF num <= Len(options) THEN num ELSE Len(options)]>>
        ELSE IF \E i \in 1..Len(options) : toLowerCase(options[i]) = normalizedInput
        THEN <<options[CHOOSE i \in 1..Len(options) :
                          toLowerCase(options[i]) = normalizedInput]>>
        ELSE <<>>

\* validateChoice(userInput, options): the option chosen, <<>> for null.
\* The number is tried first, the name second.
validateChoice(userInput, options) ==
    LET normalizedInput == toLowerCase(trim(userInput))
        num == parseInt(normalizedInput)
    IN  IF ~isNaN(num) /\ num > 0 /\ num <= Len(options)
        THEN <<options[num]>>
        ELSE IF \E i \in 1..Len(options) : toLowerCase(options[i]) = normalizedInput
        THEN <<options[CHOOSE i \in 1..Len(options) :
                          /\ toLowerCase(options[i]) = normalizedInput
                          /\ \A j \in 1..(i - 1) :
                                toLowerCase(options[j]) # normalizedInput]>>
        ELSE <<>>


(***************************************************************************)
(* The data of the model                                                   *)
(***************************************************************************)
\* WhatsApp ids of the users, and the slots in which the server runs
\* handleIncomingMessage (one per webhook request being served).
Users == {"u1", "u2"}
NumProcs == 2
Procs == 1..NumProcs

UYO      == <<"U","Y","O">>
LAGOS    == <<"L","A","G","O","S">>

\* What a user may send.
M_reset    == <<"r","e","s","e","t">>
M_menu     == <<"m","e","n","u">>
M_support  == <<"s","u","p","p","o","r","t">>
M_hi       == <<"h","i">>
M_start    == <<"s","t","a","r","t">>
M_cancel   == <<"c","a","n","c","e","l">>
M_book     == <<"b","o","o","k">>
M_booktrip == <<"b","o","o","k"," ","a"," ","n","e","w"," ","t","r","i","p">>
M_check    == <<"c","h","e","c","k"," ","m","y"," ","b","o","o","k","i","n","g">>
M_help     == <<"h","e","l","p"," ","&"," ","s","u","p","p","o","r","t">>
M_1        == <<"1">>
M_2        == <<"2">>
M_3        == <<"3">>
M_uyo      == <<"u","y","o">>
M_lagos    == <<"l","a","g","o","s">>
M_today    == <<"t","o","d","a","y">>
M_tomorrow == <<"t","o","m","o","r","r","o","w">>
M_yes      == <<"y","e","s">>
M_Yes      == <<"Y","e","s">>
M_confirm  == <<"c","o","n","f","i","r","m">>
M_no       == <<"n","o">>

Messages == {M_reset, M_menu, M_support, M_hi, M_start, M_cancel, M_book,
             M_1, M_2, M_3, M_uyo, M_lagos, M_today, M_tomorrow, M_yes, M_no}

\* The day on which the messages arrive: 2025-06-10, a Tuesday.
Today == DateUTC(2025, 5, 10)

\* currentStep's enum in the Session schema.
StepEnum == {"welcome", "ask_origin", "ask_destination", "ask_date",
             "ask_departure_choice", "ask_passengers", "review_booking",
             "awaiting_payment", "booking_complete", "main_menu", "inactive"}

BookingFields == {"origin", "destination", "date", "passengers",
                  "departureId", "fare", "totalAmount"}
ContextFields == {"availableOrigins", "availableDestinations",
                  "availableDepartures", "currentBookingId",
                  "paymentGatewayReference"}

\* bookingDetails and context of a new or reset session: every field null.
NoDetails == [f \in BookingFields |-> <<>>]
NoContext == [f \in ContextFields |-> <<>>]

\* new Session({ waId }): the schema's defaults.  idle stands for lastActive:
\* it is TRUE when more than SESSION_TIMEOUT_MS have passed since lastActive.
NewSession == [currentStep |-> "welcome", bookingDetails |-> NoDetails,
               context |-> NoContext, idle |-> FALSE]

\* The routes and departures of the catalog: one active route UYO -> LAGOS
\* with one scheduled departure tomorrow at 07:00 UTC (5 seats, fare 10000),
\* and a route LAGOS -> UYO that is switched off.
RouteIds == <<"r1", "r2">>
InitRoutes ==
    [r \in {"r1", "r2"} |->
        IF r = "r1" THEN [origin |-> UYO, destination |-> LAGOS, isActive |-> TRUE]
        ELSE [origin |-> LAGOS, destination |-> UYO, isActive |-> FALSE]]
DepartureIds == {"d1"}
InitSeats == 5
InitFare == 10000
InitDepartures ==
    [d \in DepartureIds |->
        [route |-> "r1", departureTime |-> (Today + 1) * HoursPerDay + 7,
         availableSeats |-> InitSeats, fare |-> InitFare, status |-> "scheduled"]]

(***************************************************************************)
(* sessionService.  The store maps a waId to <<>> (no document) or to      *)
(* <<session>>.  findOneAndUpdate with upsert is one atomic operation of   *)
(* the database.                                                           *)
(***************************************************************************)
\* The document an upserting update works on.
Upserted(store, waId) ==
    IF store[waId] = <<>> THEN NewSession ELSE store[waId][1]

\* $set of the fields that `updates` names; a key whose value is undefined is
\* not sent to the database (Mongoose 6 and later strip undefined keys from
\* an update), so a field that `updates` does not name is not written.
SetFields(old, updates) ==
    [f \in DOMAIN old |-> IF f \in DOMAIN updates THEN updates[f] ELSE old[f]]

\* An update of the step whose filter does not name the user: the step of
\* every session is set.
updateSessionStepOfAll(store, waId, newStep) ==
    [u \in DOMAIN store |->
        IF u = waId \/ store[u] # <<>>
        THEN <<[Upserted(store, u) EXCEPT !.currentStep = newStep, !.idle = FALSE]>>
        ELSE store[u]]

updateSessionStep(store, waId, newStep) ==
    [store EXCEPT ![waId] =
        <<[Upserted(store, waId) EXCEPT !.currentStep = newStep, !.idle = FALSE]>>]

\* Mutant: a $set that writes null to every field the update does not name.
updateBookingDetailsNulling(store, waId, updates) ==
    [store EXCEPT ![waId] =
        <<[Upserted(store, waId) EXCEPT
              !.bookingDetails = SetFields(NoDetails, updates), !.idle = FALSE]>>]

updateBookingDetails(store, waId, updates) ==
    [store EXCEPT ![waId] =
        <<[Upserted(store, waId) EXCEPT
              !.bookingDetails = SetFields(@, updates), !.idle = FALSE]>>]

updateSessionContext(store, waId, updates) ==
    [store EXCEPT ![waId] =
        <<[Upserted(store, waId) EXCEPT
              !.context = SetFields(@, updates), !.idle = FALSE]>>]

\* A reset that puts back the step and leaves the draft and the context.
resetSessionStepOnly(store, waId) ==
    [store EXCEPT ![waId] =
        <<[Upserted(store, waId) EXCEPT !.currentStep = "welcome", !.idle = FALSE]>>]

resetSession(store, waId) ==
    [store EXCEPT ![waId] =
        <<[Upserted(store, waId) EXCEPT
              !.currentStep = "welcome", !.bookingDetails = NoDetails,
              !.context = NoContext, !.idle = FALSE]>>]

(***************************************************************************)
(* The catalog queries of the engine                                       *)
(***************************************************************************)
RECURSIVE Dedup(_)
Dedup(seq) ==
    IF seq = <<>> THEN <<>>
    ELSE LET rest == Dedup(SubSeq(seq, 1, Len(seq) - 1))
             x    == seq[Len(seq)]
         IN  IF \E i \in 1..Len(rest) : rest[i] = x THEN rest ELSE Append(rest, x)

\* The origins of all routes, the inactive ones included.
DistinctOriginsOfAll(routes) ==
    Dedup([i \in 1..Len(RouteIds) |-> routes[RouteIds[i]].origin])

\* Route.distinct('origin', { isActive: true })
DistinctOrigins(routes) ==
    LET Keep(r) == routes[r].isActive
        ids == SelectSeq(RouteIds, Keep)
    IN  Dedup([i \in 1..Len(ids) |-> routes[ids[i]].origin])

\* Route.distinct('destination', { origin: origin, isActive: true }); origin
\* is <<>> when the session holds none, and then no route matches.
DistinctDestinations(routes, origin) ==
    LET Keep(r) == routes[r].isActive /\ origin = <<routes[r].origin>>
        ids == SelectSeq(RouteIds, Keep)
    IN  Dedup([i \in 1..Len(ids) |-> routes[ids[i]].destination])

\* Route.findOne({ origin, destination, isActive: true }): <<>> or <<id>>.
FindRoute(routes, origin, destination) ==
    LET Keep(r) == /\ routes[r].isActive
                   /\ origin = <<routes[r].origin>>
                   /\ destination = <<routes[r].destination>>
        ids == SelectSeq(RouteIds, Keep)
    IN  IF ids = <<>> THEN <<>> ELSE <<ids[1]>>

RECURSIVE SortByTime(_, _)
SortByTime(S, departures) ==
    IF S = {} THEN <<>>
    ELSE LET d == CHOOSE x \in S : \A y \in S :
                     departures[x].departureTime <= departures[y].departureTime
         IN  <<d>> \o SortByTime(S \ {d}, departures)

\* A query that leaves out the status of the departure.
FindDeparturesOfAnyStatus(departures, route, day) ==
    SortByTime({d \in DOMAIN departures :
                   /\ departures[d].route = route
                   /\ departures[d].departureTime >= day * HoursPerDay
                   /\ departures[d].departureTime < (day + 1) * HoursPerDay
                   /\ departures[d].availableSeats > 0}, departures)

\* Departure.find({ route, departureTime: { $gte: start of the day, $lt: start
\* of the next day }, availableSeats: { $gt: 0 }, status: 'scheduled' })
\*   .sort('departureTime'): the ids, in order.
FindDepartures(departures, route, day) ==
    SortByTime({d \in DOMAIN departures :
                   /\ departures[d].route = route
                   /\ departures[d].departureTime >= day * HoursPerDay
                   /\ departures[d].departureTime < (day + 1) * HoursPerDay
                   /\ departures[d].availableSeats > 0
                   /\ departures[d].status = "scheduled"}, departures)

\* Departure.findById(id): <<>> or <<departure>>.
FindDepartureById(departures, id) ==
    IF id # <<>> /\ id[1] \in DOMAIN departures THEN <<departures[id[1]]>> ELSE <<>>


(***************************************************************************)
(* A handler: one call of handleIncomingMessage.  pc names the awaited     *)
(* call the handler is about to make ("dispatch": it holds the session and *)
(* is about to run the code after line 129; "respond": it has returned or  *)
(* thrown, and reply is what the webhook route got).                       *)
(***************************************************************************)
IdleProc ==
    [pc |-> "idle", gs |-> "", waId |-> "none", messageText |-> <<>>,
     session |-> NewSession, isNew |-> FALSE, list |-> <<>>, chosen |-> <<>>,
     n |-> 0, dep |-> <<>>, total |-> 0, ref |-> 0, reply |-> "",
     sentiment |-> "neutral"]

\* The world a handler acts on: the collections of the database, the requests
\* the payment gateway has received, and the handlers.
World(sessions_, routes_, departures_, bookings_, payments_, proc_) ==
    [sessions |-> sessions_, routes |-> routes_, departures |-> departures_,
     bookings |-> bookings_, payments |-> payments_, proc |-> proc_]

\* return reply: the handler ends.
Return(w, p, reply) ==
    [w EXCEPT !.proc[p] = [IdleProc EXCEPT !.pc = "respond",
                              !.waId = w.proc[p].waId,
                              !.messageText = w.proc[p].messageText,
                              !.list = w.proc[p].list,
                              !.reply = reply]]

\* An exception leaves handleIncomingMessage; the webhook route answers 500.
Throw(w, p) == Return([w EXCEPT !.proc[p].list = <<>>], p, "error")

Goto(w, p, site) == [w EXCEPT !.proc[p].pc = site]

\* A test for a number that was never stored (x === undefined), which lets
\* 0 pass.
AbsentNum(x) == x = <<>>

\* JavaScript's !x for the values a session field holds.
FalsyNum(x) == x = <<>> \/ x[1] = 0
FalsyStr(x) == x = <<>> \/ x[1] = <<>>
FalsyRef(x) == x = <<>>
\* A number in an arithmetic expression: null counts as 0.
NumberOf(x) == IF x = <<>> THEN 0 ELSE x[1]

\* sessionService.getSession(waId), one awaited call at a time: findOne, then
\* save (of a new or of the loaded document) or, for a session that timed
\* out, the resetting findOneAndUpdate.  done: getSession has returned and
\* proc[p].session is what it returned.
GetSessionStep(w, p) ==
    LET l   == w.proc[p]
        u   == l.waId
        doc == w.sessions[u]
    IN  IF l.gs = ""
        THEN \* Session.findOne({ waId })
            IF doc = <<>>
            THEN [w |-> [w EXCEPT !.proc[p] = [l EXCEPT !.session = NewSession,
                                          !.isNew = TRUE, !.gs = "save"]],
                  done |-> FALSE]
            ELSE [w |-> [w EXCEPT !.proc[p] =
                            [l EXCEPT !.session = [doc[1] EXCEPT !.idle = FALSE],
                                      !.isNew = FALSE,
                                      !.gs = IF doc[1].idle THEN "timeout" ELSE "save"]],
                  done |-> FALSE]
        ELSE IF l.gs = "timeout"
        THEN \* Session.findOneAndUpdate(..., reset, { new: true, upsert: true })
            LET store == resetSession(w.sessions, u)
            IN  [w |-> [w EXCEPT !.sessions = store,
                                 !.proc[p] = [l EXCEPT !.session = store[u][1],
                                                       !.gs = ""]],
                 done |-> TRUE]
        ELSE \* session.save()
            IF l.isNew
            THEN IF doc # <<>>
                 THEN \* E11000: waId is unique
                      [w |-> Throw(w, p), done |-> FALSE]
                 ELSE [w |-> [w EXCEPT !.sessions[u] = <<NewSession>>,
                                       !.proc[p] = [l EXCEPT !.gs = ""]],
                       done |-> TRUE]
            ELSE IF l.session.currentStep \notin StepEnum
            THEN \* save validates the loaded document: ValidationError
                 [w |-> Throw(w, p), done |-> FALSE]
            ELSE IF doc = <<>>
            THEN \* the document is gone: DocumentNotFoundError
                 [w |-> Throw(w, p), done |-> FALSE]
            ELSE [w |-> [w EXCEPT !.sessions[u] = <<[doc[1] EXCEPT !.idle = FALSE]>>,
                                  !.proc[p] = [l EXCEPT !.gs = ""]],
                  done |-> TRUE]

\* Line 129: let session = await sessionService.getSession(waId)
ExecEntry(w, p) ==
    LET g == GetSessionStep(w, p)
    IN  IF g.done THEN Goto(g.w, p, "dispatch") ELSE g.w

\* The step the menu command stores (line 164).
MenuStep == "Welcome"

\* Lines 152-166: the awaited calls of the commands reset and menu.
ExecCommand(w, p) ==
    LET l == w.proc[p]
    IN  CASE l.pc = "cmd_reset" ->
                Return([w EXCEPT !.sessions = resetSession(@, l.waId)], p, "reset_ack")
          [] l.pc = "cmd_menu" ->
                Return([w EXCEPT !.sessions = updateSessionStep(@, l.waId, MenuStep)],
                       p, "menu")

\* Lines 175-203: case 'welcome'.
ExecWelcome(w, p) ==
    LET l == w.proc[p]
    IN  CASE l.pc = "w_distinct" ->
                LET origins == DistinctOrigins(w.routes)
                IN  IF Len(origins) > 0
                    THEN [w EXCEPT !.proc[p].list = origins, !.proc[p].pc = "w_context"]
                    ELSE Goto(w, p, "w_reset")
          [] l.pc = "w_context" ->
                Goto([w EXCEPT !.sessions = updateSessionContext(@, l.waId,
                                    [availableOrigins |-> <<l.list>>])], p, "w_step")
          [] l.pc = "w_step" ->
                \* lines 183-186: the wording follows the sentiment
                Return([w EXCEPT !.sessions = updateSessionStep(@, l.waId, "ask_origin")],
                       p, IF l.sentiment = "positive" THEN "ask_origin_fantastic"
                          ELSE "ask_origin")
          [] l.pc = "w_reset" ->
                Return([w EXCEPT !.sessions = resetSession(@, l.waId)], p, "no_routes")

\* session.context.<key> || []
ContextList(session, key) ==
    IF session.context[key] = <<>> THEN <<>> ELSE session.context[key][1]

\* Lines 205-235: case 'ask_origin'.
ExecAskOrigin(w, p) ==
    LET l == w.proc[p]
    IN  CASE l.pc = "ao_session" ->
                LET g == GetSessionStep(w, p)
                    chosenOrigin == validateChoice(l.messageText,
                                        ContextList(g.w.proc[p].session, "availableOrigins"))
                IN  IF ~g.done THEN g.w
                    ELSE IF chosenOrigin # <<>>
                    THEN [g.w EXCEPT !.proc[p].chosen = chosenOrigin,
                                     !.proc[p].pc = "ao_details"]
                    ELSE Goto(g.w, p, "ao_relist")
          [] l.pc = "ao_details" ->
                Goto([w EXCEPT !.sessions = updateBookingDetails(@, l.waId,
                                    [origin |-> <<toUpperCase(l.chosen[1])>>])],
                     p, "ao_session2")
          [] l.pc = "ao_session2" ->
                LET g == GetSessionStep(w, p)
                IN  IF g.done THEN Goto(g.w, p, "ao_distinct") ELSE g.w
          [] l.pc = "ao_distinct" ->
                LET destinations == DistinctDestinations(w.routes,
                                        l.session.bookingDetails.origin)
                IN  IF Len(destinations) > 0
                    THEN [w EXCEPT !.proc[p].list = destinations,
                                   !.proc[p].pc = "ao_context"]
                    ELSE Goto(w, p, "ao_reset")
          [] l.pc = "ao_context" ->
                Goto([w EXCEPT !.sessions = updateSessionContext(@, l.waId,
                                    [availableDestinations |-> <<l.list>>])],
                     p, "ao_step")
          [] l.pc = "ao_step" ->
                Return([w EXCEPT !.sessions =
                            updateSessionStep(@, l.waId, "ask_destination")],
                       p, "ask_destination")
          [] l.pc = "ao_reset" ->
                Return([w EXCEPT !.sessions = resetSession(@, l.waId)],
                       p, "no_destinations")
          [] l.pc = "ao_relist" ->
                \* the list shown again is read from the catalog
                Return([w EXCEPT !.proc[p].list = DistinctOrigins(w.routes)],
                       p, "origin_not_recognized")

\* Lines 237-259: case 'ask_destination'.
ExecAskDestination(w, p) ==
    LET l == w.proc[p]
    IN  CASE l.pc = "ad_session" ->
                LET g == GetSessionStep(w, p)
                    s == g.w.proc[p].session
                    chosenDestination ==
                        validateChoice(l.messageText,
                                       ContextList(s, "availableDestinations"))
                IN  IF ~g.done THEN g.w
                    ELSE IF chosenDestination # <<>>
                    THEN [g.w EXCEPT !.proc[p].chosen = chosenDestination,
                                     !.proc[p].pc = "ad_details"]
                    ELSE IF ~FalsyStr(s.bookingDetails.origin)
                    THEN Goto(g.w, p, "ad_relist")
                    ELSE Return(g.w, p, "destination_not_recognized")
          [] l.pc = "ad_details" ->
                Goto([w EXCEPT !.sessions = updateBookingDetails(@, l.waId,
                                    [destination |-> <<toUpperCase(l.chosen[1])>>])],
                     p, "ad_session2")
          [] l.pc = "ad_session2" ->
                LET g == GetSessionStep(w, p)
                IN  IF g.done THEN Goto(g.w, p, "ad_step") ELSE g.w
          [] l.pc = "ad_step" ->
                Return([w EXCEPT !.sessions = updateSessionStep(@, l.waId, "ask_date")],
                       p, "ask_date")
          [] l.pc = "ad_relist" ->
                Return([w EXCEPT !.proc[p].list =
                            DistinctDestinations(w.routes,
                                                 l.session.bookingDetails.origin)],
                       p, "destination_not_recognized")


\* Lines 267-268 and 319-322: what case 'ask_date' does with the parsed date.
AfterParse(w, p, parsedDate) ==
    IF parsedDate # <<>>
    THEN [w EXCEPT !.proc[p].n = parsedDate[1], !.proc[p].pc = "dt_details"]
    ELSE Return(w, p, "date_not_understood")

\* Lines 261-323: case 'ask_date'.
ExecAskDate(w, p) ==
    LET l == w.proc[p]
    IN  CASE l.pc = "dt_session" ->
                LET g == GetSessionStep(w, p)
                IN  IF ~g.done THEN g.w
                    ELSE AfterParse(g.w, p, parseDateInput(l.messageText, Today))
          [] l.pc = "dt_details" ->
                Goto([w EXCEPT !.sessions = updateBookingDetails(@, l.waId,
                                    [date |-> <<l.n>>])], p, "dt_session2")
          [] l.pc = "dt_session2" ->
                LET g == GetSessionStep(w, p)
                IN  IF g.done THEN Goto(g.w, p, "dt_route") ELSE g.w
          [] l.pc = "dt_route" ->
                LET route == FindRoute(w.routes, l.session.bookingDetails.origin,
                                       l.session.bookingDetails.destination)
                IN  IF route # <<>>
                    THEN [w EXCEPT !.proc[p].chosen = route,
                                   !.proc[p].pc = "dt_departures"]
                    ELSE Goto(w, p, "dt_reset")
          [] l.pc = "dt_departures" ->
                LET found == FindDepartures(w.departures, l.chosen[1], l.n)
                IN  IF Len(found) > 0
                    THEN [w EXCEPT !.proc[p].list = found, !.proc[p].pc = "dt_context"]
                    ELSE Goto(w, p, "dt_stay")
          [] l.pc = "dt_context" ->
                Goto([w EXCEPT !.sessions = updateSessionContext(@, l.waId,
                                    [availableDepartures |-> <<l.list>>])],
                     p, "dt_step")
          [] l.pc = "dt_step" ->
                Return([w EXCEPT !.sessions =
                            updateSessionStep(@, l.waId, "ask_departure_choice")],
                       p, "departure_options")
          [] l.pc = "dt_stay" ->
                Return([w EXCEPT !.sessions = updateSessionStep(@, l.waId, "ask_date")],
                       p, "no_departures")
          [] l.pc = "dt_reset" ->
                Return([w EXCEPT !.sessions = resetSession(@, l.waId)],
                       p, "route_not_found")

\* A test of the departure read again that does not look at its seats.
StillThere(chosenDeparture) == chosenDeparture # <<>>

\* Line 336: chosenDeparture && chosenDeparture.availableSeats > 0
StillAvailable(chosenDeparture) ==
    chosenDeparture # <<>> /\ chosenDeparture[1].availableSeats > 0

\* Lines 325-352: case 'ask_departure_choice'.
ExecAskDepartureChoice(w, p) ==
    LET l == w.proc[p]
    IN  CASE l.pc = "dc_session" ->
                LET g == GetSessionStep(w, p)
                    availableDepartureIds ==
                        ContextList(g.w.proc[p].session, "availableDepartures")
                    parsed == parseInt(l.messageText)
                    chosenDepartureIndex == parsed - 1
                IN  IF ~g.done THEN g.w
                    ELSE IF /\ ~isNaN(parsed)
                            /\ chosenDepartureIndex >= 0
                            /\ chosenDepartureIndex < Len(availableDepartureIds)
                    THEN [g.w EXCEPT !.proc[p].chosen =
                                        <<availableDepartureIds[chosenDepartureIndex + 1]>>,
                                     !.proc[p].pc = "dc_find"]
                    ELSE Return(g.w, p, "choice_not_understood")
          [] l.pc = "dc_find" ->
                LET chosenDeparture == FindDepartureById(w.departures, l.chosen)
                IN  IF StillAvailable(chosenDeparture)
                    THEN [w EXCEPT !.proc[p].dep = chosenDeparture,
                                   !.proc[p].pc = "dc_details"]
                    ELSE Return(w, p, "departure_unavailable")
          [] l.pc = "dc_details" ->
                Goto([w EXCEPT !.sessions = updateBookingDetails(@, l.waId,
                                    [departureId |-> l.chosen,
                                     fare |-> <<l.dep[1].fare>>])],
                     p, "dc_session2")
          [] l.pc = "dc_session2" ->
                LET g == GetSessionStep(w, p)
                IN  IF g.done THEN Goto(g.w, p, "dc_step") ELSE g.w
          [] l.pc = "dc_step" ->
                Return([w EXCEPT !.sessions =
                            updateSessionStep(@, l.waId, "ask_passengers")],
                       p, "ask_passengers")

\* A test of the passenger count that does not look at the seats left.
PositivePassengers(departureToBook, numPassengersInput) ==
    /\ departureToBook # <<>>
    /\ ~isNaN(numPassengersInput)
    /\ numPassengersInput > 0

\* Line 372: departureToBook && !isNaN(numPassengersInput) &&
\* numPassengersInput > 0 && numPassengersInput <= departureToBook.availableSeats
ValidPassengers(departureToBook, numPassengersInput) ==
    /\ departureToBook # <<>>
    /\ ~isNaN(numPassengersInput)
    /\ numPassengersInput > 0
    /\ numPassengersInput <= departureToBook[1].availableSeats

\* Lines 354-409: case 'ask_passengers'.
ExecAskPassengers(w, p) ==
    LET l == w.proc[p]
    IN  CASE l.pc = "ap_session" ->
                LET g == GetSessionStep(w, p)
                    d == g.w.proc[p].session.bookingDetails
                    numPassengersInput == parseInt(l.messageText)
                IN  IF ~g.done THEN g.w
                    ELSE IF \/ FalsyStr(d.origin) \/ FalsyStr(d.destination)
                            \/ FalsyRef(d.date) \/ FalsyRef(d.departureId)
                            \/ FalsyNum(d.fare)
                    THEN Goto(g.w, p, "ap_reset_missing")
                    ELSE [g.w EXCEPT !.proc[p].chosen = d.departureId,
                                     !.proc[p].n = numPassengersInput,
                                     !.proc[p].pc = "ap_find"]
          [] l.pc = "ap_reset_missing" ->
                Return([w EXCEPT !.sessions = resetSession(@, l.waId)],
                       p, "missing_details")
          [] l.pc = "ap_find" ->
                LET departureToBook == FindDepartureById(w.departures, l.chosen)
                IN  IF ValidPassengers(departureToBook, l.n)
                    THEN Goto(w, p, "ap_details")
                    ELSE Return(w, p, "invalid_passengers")
          [] l.pc = "ap_details" ->
                Goto([w EXCEPT !.sessions = updateBookingDetails(@, l.waId,
                                    [passengers |-> <<l.n>>])], p, "ap_session2")
          [] l.pc = "ap_session2" ->
                LET g == GetSessionStep(w, p)
                IN  IF g.done THEN Goto(g.w, p, "ap_find2") ELSE g.w
          [] l.pc = "ap_find2" ->
                LET finalDeparture == FindDepartureById(w.departures, l.chosen)
                IN  IF finalDeparture # <<>>
                    THEN [w EXCEPT !.proc[p].dep = finalDeparture,
                                   !.proc[p].pc = "ap_total"]
                    ELSE Goto(w, p, "ap_reset_notfound")
          [] l.pc = "ap_total" ->
                LET totalAmount == l.dep[1].fare
                                     * NumberOf(l.session.bookingDetails.passengers)
                IN  Goto([w EXCEPT !.sessions = updateBookingDetails(@, l.waId,
                                        [totalAmount |-> <<totalAmount>>])],
                         p, "ap_session3")
          [] l.pc = "ap_session3" ->
                LET g == GetSessionStep(w, p)
                    d == g.w.proc[p].session.bookingDetails
                IN  IF ~g.done THEN g.w
                    ELSE IF d.fare = <<>> \/ d.totalAmount = <<>>
                    THEN \* null.toLocaleString(): TypeError
                         Throw(g.w, p)
                    ELSE Goto(g.w, p, "ap_step")
          [] l.pc = "ap_step" ->
                Return([w EXCEPT !.sessions =
                            updateSessionStep(@, l.waId, "review_booking")],
                       p, "review")
          [] l.pc = "ap_reset_notfound" ->
                Return([w EXCEPT !.sessions = resetSession(@, l.waId)],
                       p, "departure_not_found")


\* What the payment gateway may do with an initialisation request: accept it
\* (status true), decline it (status false), or fail (axios.post throws).
GatewayOutcomes == {"accepted", "declined", "failed"}

\* Lines 446-467: the request is made without a timeout (the default of
\* axios is none), so the gateway may also leave it unanswered.
GatewayAnswers == GatewayOutcomes \cup {"silent"}

\* Line 485: await newBooking.save() may reject after the gateway has
\* accepted the request: bookingReference is unique (Booking.js lines 29-33)
\* and is drawn at random (line 439), and the database may fail.
ConfirmationOutcomes == GatewayOutcomes \cup {"unsaved"}

\* new Booking({...}): the fields the Booking schema keeps (the schema is
\* strict and declares no paymentReference).
NewBooking(waId, departureId, passengers, totalAmount, bookingReference) ==
    [userId |-> waId, departure |-> departureId, passengers |-> passengers,
     totalAmount |-> totalAmount, bookingReference |-> bookingReference,
     status |-> "confirmed", paymentStatus |-> "pending"]

\* newBooking._id of the booking saved under a reference.
BookingIdOf(bookings, ref) ==
    CHOOSE i \in 1..Len(bookings) : bookings[i].bookingReference = ref

\* A confirmation that does not look at the seats that are left.
SeatsNotChecked(availableSeats, finalPassengers) == FALSE

\* Line 432: finalDeparture.availableSeats < finalPassengers
NotEnoughSeats(availableSeats, finalPassengers) == availableSeats < finalPassengers

\* A save that also takes the seats of the booking from every departure of
\* the ledger (an update of the departures without the filter on the id).
SaveTakingSeats(w, newBooking) ==
    [w EXCEPT !.bookings = Append(@, newBooking),
              !.departures = [d \in DOMAIN @ |->
                                 [@[d] EXCEPT !.availableSeats =
                                     IF @ >= newBooking.passengers
                                     THEN @ - newBooking.passengers ELSE 0]]]

\* Line 485: await newBooking.save(), the only write of a confirmation
\* besides those to the session.
Save(w, newBooking) == [w EXCEPT !.bookings = Append(@, newBooking)]

\* Lines 411-526: case 'review_booking'.
ExecReviewBooking(w, p, outcome) ==
    LET l == w.proc[p]
        lower == toLowerCase(l.messageText)
    IN  CASE l.pc = "rb_session" ->
                LET g == GetSessionStep(w, p)
                    d == g.w.proc[p].session.bookingDetails
                IN  IF ~g.done THEN g.w
                    ELSE IF lower = M_yes \/ lower = M_confirm
                    THEN IF \/ FalsyStr(d.origin) \/ FalsyStr(d.destination)
                            \/ FalsyRef(d.date) \/ FalsyRef(d.departureId)
                            \/ FalsyNum(d.passengers) \/ FalsyNum(d.fare)
                            \/ d.totalAmount = <<>>
                         THEN Goto(g.w, p, "rb_reset_missing")
                         ELSE [g.w EXCEPT !.proc[p].chosen = d.departureId,
                                          !.proc[p].n = d.passengers[1],
                                          !.proc[p].total = d.totalAmount[1],
                                          !.proc[p].pc = "rb_find"]
                    ELSE IF lower = M_no \/ lower = M_cancel
                    THEN Goto(g.w, p, "rb_reset_cancel")
                    ELSE Return(g.w, p, "review_reprompt")
          [] l.pc = "rb_reset_missing" ->
                Return([w EXCEPT !.sessions = resetSession(@, l.waId)],
                       p, "missing_details")
          [] l.pc = "rb_find" ->
                LET finalDeparture == FindDepartureById(w.departures, l.chosen)
                IN  IF finalDeparture = <<>> THEN Goto(w, p, "rb_reset_notfound")
                    ELSE IF NotEnoughSeats(finalDeparture[1].availableSeats, l.n)
                    THEN Goto(w, p, "rb_reset_capacity")
                    ELSE Goto(w, p, "rb_pay")
          [] l.pc = "rb_reset_notfound" ->
                Return([w EXCEPT !.sessions = resetSession(@, l.waId)],
                       p, "departure_not_found")
          [] l.pc = "rb_reset_capacity" ->
                Return([w EXCEPT !.sessions = resetSession(@, l.waId)],
                       p, "not_enough_seats")
          [] l.pc = "rb_pay" ->
                \* axios.post(.../transaction/initialize) under a fresh reference
                LET bookingReference == Len(w.payments) + 1
                    request == [reference |-> bookingReference,
                                amount |-> l.total * 100, waId |-> l.waId,
                                outcome |-> IF outcome = "unsaved" THEN "accepted"
                                            ELSE outcome]
                    sent == [w EXCEPT !.payments = Append(@, request),
                                      !.proc[p].ref = bookingReference]
                IN  IF outcome \in {"accepted", "unsaved"} THEN Goto(sent, p, "rb_save")
                    ELSE IF outcome = "declined" THEN Goto(sent, p, "rb_reset_declined")
                    ELSE IF outcome = "failed" THEN Goto(sent, p, "rb_reset_failed")
                    ELSE \* the promise of axios.post is never settled
                         Goto(sent, p, "rb_wait")
          [] l.pc = "rb_save" ->
                \* a save that rejects is caught at line 507
                IF outcome = "unsaved" THEN Goto(w, p, "rb_reset_failed")
                ELSE Goto(Save(w, NewBooking(l.waId, l.chosen[1], l.n, l.total, l.ref)),
                          p, "rb_step")
          [] l.pc = "rb_step" ->
                Goto([w EXCEPT !.sessions =
                          updateSessionStep(@, l.waId, "awaiting_payment")],
                     p, "rb_context")
          [] l.pc = "rb_context" ->
                Return([w EXCEPT !.sessions = updateSessionContext(@, l.waId,
                            [currentBookingId |-> <<BookingIdOf(w.bookings, l.ref)>>,
                             paymentGatewayReference |-> <<l.ref>>])],
                       \* lines 487-492: the wording follows the sentiment
                       p, IF l.sentiment = "positive" THEN "booking_created_fantastic"
                          ELSE "booking_created")
          [] l.pc = "rb_reset_declined" ->
                Return([w EXCEPT !.sessions = resetSession(@, l.waId)],
                       p, "payment_not_initiated")
          [] l.pc = "rb_reset_failed" ->
                Return([w EXCEPT !.sessions = resetSession(@, l.waId)],
                       p, "payment_error")
          [] l.pc = "rb_reset_cancel" ->
                Return([w EXCEPT !.sessions = resetSession(@, l.waId)],
                       p, "cancelled")

\* Lines 133-138: what the sentiment analyser makes of a message.
Sentiments == {"positive", "neutral", "negative"}

\* A handler that answers a frustrated user at once (the return that line 149
\* leaves out).
ApologiseAndReturn(w, p) ==
    IF /\ w.proc[p].sentiment = "negative"
       /\ toLowerCase(w.proc[p].messageText) \notin {M_reset, M_menu, M_support}
    THEN Return(w, p, "frustration")
    ELSE w

\* Lines 146-150: the reply to a frustrated user is prepared and the handler
\* goes on.
Apologise(w, p) ==
    IF /\ w.proc[p].sentiment = "negative"
       /\ toLowerCase(w.proc[p].messageText) \notin {M_reset, M_menu, M_support}
    THEN [w EXCEPT !.proc[p].reply = "frustration"]
    ELSE w

\* Lines 131-203 and 528-539: the code between the first getSession and the
\* first awaited call of the command or of the case that handles the message
\* (in the cases 'welcome' and 'awaiting_payment' and in the default case, to
\* the return when they make no call).
ExecDispatch(w_, p) ==
    LET w == Apologise(w_, p)
        l == w.proc[p]
        messageText == l.messageText
        lower == toLowerCase(l.messageText)
        currentStep == l.session.currentStep
    IN  IF l.pc = "respond" THEN w
        ELSE IF lower = M_reset THEN Goto(w, p, "cmd_reset")
        ELSE IF lower = M_menu THEN Goto(w, p, "cmd_menu")
        ELSE IF lower = M_support THEN Return(w, p, "support")
        ELSE CASE currentStep = "welcome" ->
                    IF messageText = M_1 \/ lower = M_booktrip
                    THEN Goto(w, p, "w_distinct")
                    ELSE IF messageText = M_2 \/ lower = M_check
                    THEN Return(w, p, "check_coming_soon")
                    ELSE IF messageText = M_3 \/ lower = M_help
                    THEN Return(w, p, "help_coming_soon")
                    ELSE Return(w, p, "welcome_not_understood")
               [] currentStep = "ask_origin" -> Goto(w, p, "ao_session")
               [] currentStep = "ask_destination" -> Goto(w, p, "ad_session")
               [] currentStep = "ask_date" -> Goto(w, p, "dt_session")
               [] currentStep = "ask_departure_choice" -> Goto(w, p, "dc_session")
               [] currentStep = "ask_passengers" -> Goto(w, p, "ap_session")
               [] currentStep = "review_booking" -> Goto(w, p, "rb_session")
               [] currentStep = "awaiting_payment" -> Return(w, p, "awaiting_payment")
               [] OTHER -> Return(w, p, "unknown_step")

CommandSites  == {"cmd_reset", "cmd_menu"}
WelcomeSites  == {"w_distinct", "w_context", "w_step", "w_reset"}
OriginSites   == {"ao_session", "ao_details", "ao_session2", "ao_distinct",
                  "ao_context", "ao_step", "ao_reset", "ao_relist"}
DestinationSites == {"ad_session", "ad_details", "ad_session2", "ad_step",
                     "ad_relist"}
DateSites     == {"dt_session", "dt_details", "dt_session2", "dt_route",
                  "dt_departures", "dt_context", "dt_step", "dt_stay", "dt_reset"}
ChoiceSites   == {"dc_session", "dc_find", "dc_details", "dc_session2", "dc_step"}
PassengerSites == {"ap_session", "ap_reset_missing", "ap_find", "ap_details",
                   "ap_session2", "ap_find2", "ap_total", "ap_session3",
                   "ap_step", "ap_reset_notfound"}
ReviewSites   == {"rb_session", "rb_reset_missing", "rb_find", "rb_reset_notfound",
                  "rb_reset_capacity", "rb_pay", "rb_save", "rb_step",
                  "rb_context", "rb_reset_declined", "rb_reset_failed",
                  "rb_reset_cancel"}

\* One step of handler p: the awaited call it is at, and the code up to the
\* next awaited call or to the return.
Exec(w, p, outcome) ==
    LET pc == w.proc[p].pc
    IN  CASE pc = "entry" -> ExecEntry(w, p)
          [] pc = "dispatch" -> ExecDispatch(w, p)
          [] pc \in CommandSites -> ExecCommand(w, p)
          [] pc \in WelcomeSites -> ExecWelcome(w, p)
          [] pc \in OriginSites -> ExecAskOrigin(w, p)
          [] pc \in DestinationSites -> ExecAskDestination(w, p)
          [] pc \in DateSites -> ExecAskDate(w, p)
          [] pc \in ChoiceSites -> ExecAskDepartureChoice(w, p)
          [] pc \in PassengerSites -> ExecAskPassengers(w, p)
          [] pc \in ReviewSites -> ExecReviewBooking(w, p, outcome)

\* The handler of a message that has just arrived.
Started(waId, messageText) ==
    [IdleProc EXCEPT !.pc = "entry", !.waId = waId, !.messageText = messageText]

\* The handler of a message in which the analyser finds `sentiment`.
StartedWith(waId, messageText, sentiment) ==
    [Started(waId, messageText) EXCEPT !.sentiment = sentiment]

\* handleIncomingMessage(waId, messageText) run alone, from its call to its
\* return, with the gateway answering `outcome`.
RECURSIVE RunToEnd(_, _, _)
RunToEnd(w, p, outcome) ==
    CHOOSE end \in {IF v.proc[p].pc \in {"respond", "idle"} THEN v
                    ELSE RunToEnd(Exec(v, p, outcome), p, outcome) : v \in {w}} : TRUE


(***************************************************************************)
(* The state                                                               *)
(***************************************************************************)
VARIABLES
    sessions,     \* the sessions collection: waId -> <<>> or <<session>>
    routes,       \* the routes collection
    departures,   \* the departures collection
    bookings,     \* the bookings collection, in the order of insertion
    payments,     \* the initialisation requests the gateway has received
    proc,         \* the handlers
    start,        \* the sessions collection of the initial state
    e2e,          \* how far u1 alone has come in EndToEndScript (-1: not on it)
    pure          \* a call of a helper function: its arguments and its result

vars == <<sessions, routes, departures, bookings, payments, proc, start, e2e,
          pure>>

TheWorld == World(sessions, routes, departures, bookings, payments, proc)

Becomes(w) ==
    /\ sessions' = w.sessions
    /\ routes' = w.routes
    /\ departures' = w.departures
    /\ bookings' = w.bookings
    /\ payments' = w.payments
    /\ proc' = w.proc

\* No helper function is being followed.
NoCall == [fn |-> "none", input |-> <<>>, options |-> <<>>, today |-> 0,
           result |-> <<>>]

\* The most initialisation requests the gateway receives while messages are
\* handled one after the other.
MaxPayments == 1

\* The messages of the end-to-end scenario, in order.
EndToEndScript == <<M_book, M_uyo, M_lagos, M_tomorrow, M_1, M_2, M_yes>>

EmptyStore == [u \in Users |-> <<>>]
FreshWorld == World(EmptyStore, InitRoutes, InitDepartures, <<>>, <<>>,
                    [p \in Procs |-> IdleProc])

\* The database as seeded, no session, no handler.
Init ==
    /\ sessions = EmptyStore
    /\ routes = InitRoutes
    /\ departures = InitDepartures
    /\ bookings = <<>>
    /\ payments = <<>>
    /\ proc = [p \in Procs |-> IdleProc]
    /\ start = EmptyStore
    /\ e2e = 0
    /\ pure = NoCall

\* The webhook route calls handleIncomingMessage(waId, messageText) and the
\* call runs to its return before the next message arrives; the analyser
\* finds `sentiment` in the message and the gateway answers `outcome`.
HandleIncomingMessage(waId, messageText, sentiment, outcome) ==
    LET arrived == [TheWorld EXCEPT !.proc[1] =
                        StartedWith(waId, messageText, sentiment)]
        done == RunToEnd(arrived, 1, outcome)
    IN  /\ \A p \in Procs : proc[p].pc \in {"idle", "respond"}
        /\ Len(done.payments) <= MaxPayments
        /\ Becomes(done)
        /\ e2e' = IF /\ e2e \in 0..(Len(EndToEndScript) - 1)
                     /\ waId = "u1"
                     /\ messageText = EndToEndScript[e2e + 1]
                     /\ outcome = "accepted"
                  THEN e2e + 1 ELSE -1
        /\ UNCHANGED <<start, pure>>

\* More than SESSION_TIMEOUT_MS pass without a message of the user; the
\* replies of the handlers that ended have been delivered by then.
Elapse(waId) ==
    /\ \A p \in Procs : proc[p].pc \in {"idle", "respond"}
    /\ sessions[waId] # <<>>
    /\ ~sessions[waId][1].idle
    /\ sessions' = [sessions EXCEPT ![waId] = <<[@[1] EXCEPT !.idle = TRUE]>>]
    /\ proc' = [p \in Procs |-> IdleProc]
    /\ e2e' = -1
    /\ UNCHANGED <<routes, departures, bookings, payments, start, pure>>

\* The TTL index on lastActive (expires: '2h'): the database deletes a
\* session that has been idle that long.
TTLExpire(waId) ==
    /\ \A p \in Procs : proc[p].pc \in {"idle", "respond"}
    /\ sessions[waId] # <<>>
    /\ sessions[waId][1].idle
    /\ sessions' = [sessions EXCEPT ![waId] = <<>>]
    /\ e2e' = -1
    /\ UNCHANGED <<routes, departures, bookings, payments, proc, start, pure>>

\* The seats that a writer of the departures collection other than the
\* conversation engine takes from a departure at a time.
SoldElsewhere == 3

\* Another writer of the database (the departures are a shared collection:
\* availableSeats is a plain number of the Departure document, at least 0)
\* lowers the seats that are left on a departure.
SeatsSold(d) ==
    /\ \A p \in Procs : proc[p].pc \in {"idle", "respond"}
    /\ departures[d].availableSeats >= SoldElsewhere
    /\ departures' = [departures EXCEPT ![d].availableSeats = @ - SoldElsewhere]
    /\ proc' = [p \in Procs |-> IdleProc]
    /\ e2e' = -1
    /\ UNCHANGED <<sessions, routes, bookings, payments, start, pure>>

\* The user whose conversation the serial specification follows.
SerialUsers == {"u1"}

\* The answers of the gateway that matter to the next message of a user: the
\* gateway is called only from case 'review_booking'.
OutcomesFor(waId) ==
    IF sessions[waId] # <<>> /\ sessions[waId][1].currentStep = "review_booking"
    THEN GatewayOutcomes ELSE {"accepted"}

Next ==
    \/ \E waId \in SerialUsers, messageText \in Messages :
         \E sentiment \in Sentiments, outcome \in OutcomesFor(waId) :
            HandleIncomingMessage(waId, messageText, sentiment, outcome)
    \/ \E waId \in SerialUsers : Elapse(waId)
    \/ \E waId \in SerialUsers : TTLExpire(waId)
    \/ \E d \in DepartureIds : SeatsSold(d)

\* Messages handled one after the other.
Spec == Init /\ [][Next]_vars


(***************************************************************************)
(* Messages handled one after the other while the catalog and the ledger   *)
(* change between them: routes are switched on and off, seats are sold,    *)
(* fares are changed and departures are cancelled or removed by the other  *)
(* writers of the database.                                                *)
(***************************************************************************)
M_0 == <<"0">>
M_lastyear == <<"2","0","2","4","-","0","1","-","0","1">>

\* What the user sends in this specification.
CatalogMessages ==
    {M_0, M_1, M_2, M_3, M_uyo, M_lagos, M_lastyear, M_tomorrow, M_reset}

\* The ledger: two departures of route r1 tomorrow, the later one entered
\* first, the earlier one at the first hour of the day; one departure at the
\* first hour of the day after.
LedgerIds == {"d1", "d2", "d3"}
LedgerDepartures ==
    [d \in LedgerIds |->
        [route |-> "r1",
         departureTime |-> CASE d = "d1" -> (Today + 1) * HoursPerDay + 7
                             [] d = "d2" -> (Today + 1) * HoursPerDay
                             [] d = "d3" -> (Today + 2) * HoursPerDay,
         availableSeats |-> InitSeats, fare |-> InitFare, status |-> "scheduled"]]

InitCatalog ==
    /\ sessions = EmptyStore
    /\ routes = InitRoutes
    /\ departures = LedgerDepartures
    /\ bookings = <<>>
    /\ payments = <<>>
    /\ proc = [p \in Procs |-> IdleProc]
    /\ start = EmptyStore
    /\ e2e = -1
    /\ pure = NoCall

\* The replies have been delivered; another writer changes the catalog.
CatalogWrite(newRoutes) ==
    /\ routes' = newRoutes
    /\ proc' = [p \in Procs |-> IdleProc]
    /\ UNCHANGED <<sessions, departures, bookings, payments, start, e2e, pure>>

\* The replies have been delivered; another writer changes the ledger.
LedgerWrite(newDepartures) ==
    /\ departures' = newDepartures
    /\ proc' = [p \in Procs |-> IdleProc]
    /\ UNCHANGED <<sessions, routes, bookings, payments, start, e2e, pure>>

\* Route.isActive is switched (src/models/Route.js).
RouteSwitched(r) ==
    CatalogWrite([routes EXCEPT ![r].isActive = ~@])

\* Seats are sold by another writer.
SeatsTaken(d) ==
    /\ d \in DOMAIN departures
    /\ departures[d].availableSeats >= SoldElsewhere
    /\ LedgerWrite([departures EXCEPT ![d].availableSeats = @ - SoldElsewhere])

\* The last seats are sold by another writer.
SoldOut(d) ==
    /\ d \in DOMAIN departures
    /\ departures[d].availableSeats > 0
    /\ LedgerWrite([departures EXCEPT ![d].availableSeats = 0])

\* The fare another writer sets on a departure.
RaisedFare == 12000

FareChanged(d) ==
    /\ d \in DOMAIN departures
    /\ departures[d].fare = InitFare
    /\ LedgerWrite([departures EXCEPT ![d].fare = RaisedFare])

\* Departure.status leaves 'scheduled'.
DepartureCancelled(d) ==
    /\ d \in DOMAIN departures
    /\ departures[d].status = "scheduled"
    /\ LedgerWrite([departures EXCEPT ![d].status = "cancelled"])

\* The Departure document is deleted.
DepartureRemoved(d) ==
    /\ d \in DOMAIN departures
    /\ LedgerWrite([x \in DOMAIN departures \ {d} |-> departures[x]])

NextCatalog ==
    \/ \E waId \in SerialUsers, messageText \in CatalogMessages :
            HandleIncomingMessage(waId, messageText, "neutral", "accepted")
    \/ \E r \in {RouteIds[i] : i \in 1..Len(RouteIds)} : RouteSwitched(r)
    \/ SeatsTaken("d1")
    \/ SoldOut("d1")
    \/ FareChanged("d1")
    \/ DepartureCancelled("d2")
    \/ DepartureRemoved("d2")

\* Messages handled one after the other in a catalog and a ledger that change.
SpecCatalog == InitCatalog /\ [][NextCatalog]_vars


(***************************************************************************)
(* A booking carried to its confirmation while the ledger changes: between *)
(* two messages a departure is cancelled or removed, or its fare is set to *)
(* 0 (departureSchema.fare has min 0), and the gateway answers as it       *)
(* likes.                                                                  *)
(***************************************************************************)
\* What the user sends in this specification.
LedgerMessages == {M_1, M_2, M_uyo, M_lagos, M_tomorrow, M_yes, M_no}

\* The fare of a departure is set to 0.
FareWaived(d) ==
    /\ d \in DOMAIN departures
    /\ departures[d].fare = InitFare
    /\ LedgerWrite([departures EXCEPT ![d].fare = 0])

NextLedger ==
    \/ \E waId \in SerialUsers, messageText \in LedgerMessages :
         \E outcome \in (IF OutcomesFor(waId) = GatewayOutcomes
                         THEN ConfirmationOutcomes ELSE {"accepted"}) :
            HandleIncomingMessage(waId, messageText, "neutral", outcome)
    \/ \E d \in {"d1", "d2"} : DepartureCancelled(d)
    \/ \E d \in {"d1", "d2"} : DepartureRemoved(d)
    \/ FareWaived("d1")

\* Messages handled one after the other in a ledger that changes, up to the
\* confirmation.
SpecLedger == InitCatalog /\ [][NextLedger]_vars


(***************************************************************************)
(* Overlapping handlers.  The webhook route starts a handler for every     *)
(* message as it arrives; the handlers of one Node.js process interleave   *)
(* at their awaited calls.                                                 *)
(***************************************************************************)
\* The messages of a conversation that reaches the review of a booking of
\* three seats.
HappyPath == <<M_1, M_uyo, M_lagos, M_tomorrow, M_1, M_3>>

Prefixes(seq) == {SubSeq(seq, 1, k) : k \in 0..Len(seq)}

\* The conversations the users have had before their messages overlap.
EarlierMessages ==
    [u \in Users |-> IF u = "u1" THEN Prefixes(HappyPath) ELSE {<<>>, HappyPath}]

\* What the users send while handlers overlap.
OverlappingMessages ==
    {M_reset, M_menu, M_1, M_uyo, M_lagos, M_tomorrow, M_3, M_Yes, M_no}

Addressed(waId, msgs) ==
    [i \in 1..Len(msgs) |-> [waId |-> waId, messageText |-> msgs[i]]]

\* The world after a message was handled with no other handler running.
HandledAlone(w, waId, messageText, outcome) ==
    CHOOSE end \in {[done EXCEPT !.proc[1] = IdleProc] :
                        done \in {RunToEnd([w EXCEPT !.proc[1] =
                                               Started(waId, messageText)],
                                           1, outcome)}} : TRUE

\* The world after messages were handled one after the other.
RECURSIVE Converse(_, _)
Converse(w, msgs) ==
    IF msgs = <<>> THEN w
    ELSE CHOOSE end \in {Converse(next, Tail(msgs)) :
                            next \in {HandledAlone(w, Head(msgs).waId,
                                                   Head(msgs).messageText,
                                                   "accepted")}} : TRUE

\* The sessions when more than SESSION_TIMEOUT_MS have passed since the last
\* message of the user.
TimedOut(store, waId) ==
    IF store[waId] = <<>> THEN store
    ELSE [store EXCEPT ![waId] = <<[@[1] EXCEPT !.idle = TRUE]>>]

\* The users have had their earlier conversations; u1 may have been silent
\* for more than SESSION_TIMEOUT_MS since.
InitConc ==
    \E m1 \in EarlierMessages["u1"], m2 \in EarlierMessages["u2"] :
        \E w \in {Converse(FreshWorld, Addressed("u1", m1) \o Addressed("u2", m2))} :
          \E silent \in BOOLEAN :
            /\ sessions = IF silent THEN TimedOut(w.sessions, "u1") ELSE w.sessions
            /\ routes = w.routes
            /\ departures = w.departures
            /\ bookings = w.bookings
            /\ payments = w.payments
            /\ proc = w.proc
            /\ start = sessions
            /\ e2e = -1
            /\ pure = NoCall

\* A message arrives and the webhook route calls handleIncomingMessage.
Receive(p, waId, messageText) ==
    /\ proc[p].pc = "idle"
    /\ \A q \in 1..(p - 1) : proc[q].pc # "idle"
    /\ proc' = [proc EXCEPT ![p] = Started(waId, messageText)]
    /\ UNCHANGED <<sessions, routes, departures, bookings, payments, start, e2e,
                   pure>>

\* Line 129: the first getSession of the handler.
GetSession(p) ==
    /\ proc[p].pc = "entry"
    /\ \E w \in {ExecEntry(TheWorld, p)} : Becomes(w)
    /\ UNCHANGED <<start, e2e, pure>>

Dispatch(p) ==
    /\ proc[p].pc = "dispatch"
    /\ \E w \in {ExecDispatch(TheWorld, p)} : Becomes(w)
    /\ UNCHANGED <<start, e2e, pure>>

Command(p) ==
    /\ proc[p].pc \in CommandSites
    /\ \E w \in {ExecCommand(TheWorld, p)} : Becomes(w)
    /\ UNCHANGED <<start, e2e, pure>>

Welcome(p) ==
    /\ proc[p].pc \in WelcomeSites
    /\ \E w \in {ExecWelcome(TheWorld, p)} : Becomes(w)
    /\ UNCHANGED <<start, e2e, pure>>

AskOrigin(p) ==
    /\ proc[p].pc \in OriginSites
    /\ \E w \in {ExecAskOrigin(TheWorld, p)} : Becomes(w)
    /\ UNCHANGED <<start, e2e, pure>>

AskDestination(p) ==
    /\ proc[p].pc \in DestinationSites
    /\ \E w \in {ExecAskDestination(TheWorld, p)} : Becomes(w)
    /\ UNCHANGED <<start, e2e, pure>>

AskDate(p) ==
    /\ proc[p].pc \in DateSites
    /\ \E w \in {ExecAskDate(TheWorld, p)} : Becomes(w)
    /\ UNCHANGED <<start, e2e, pure>>

AskDepartureChoice(p) ==
    /\ proc[p].pc \in ChoiceSites
    /\ \E w \in {ExecAskDepartureChoice(TheWorld, p)} : Becomes(w)
    /\ UNCHANGED <<start, e2e, pure>>

AskPassengers(p) ==
    /\ proc[p].pc \in PassengerSites
    /\ \E w \in {ExecAskPassengers(TheWorld, p)} : Becomes(w)
    /\ UNCHANGED <<start, e2e, pure>>

ReviewBooking(p) ==
    /\ proc[p].pc \in ReviewSites
    /\ \E outcome \in (IF proc[p].pc = "rb_pay" THEN GatewayOutcomes
                       ELSE {"accepted"}) :
            \E w \in {ExecReviewBooking(TheWorld, p, outcome)} : Becomes(w)
    /\ UNCHANGED <<start, e2e, pure>>

NextConc ==
    \/ \E p \in Procs, waId \in Users, messageText \in OverlappingMessages :
            Receive(p, waId, messageText)
    \/ \E p \in Procs : GetSession(p)
    \/ \E p \in Procs : Dispatch(p)
    \/ \E p \in Procs : Command(p)
    \/ \E p \in Procs : Welcome(p)
    \/ \E p \in Procs : AskOrigin(p)
    \/ \E p \in Procs : AskDestination(p)
    \/ \E p \in Procs : AskDate(p)
    \/ \E p \in Procs : AskDepartureChoice(p)
    \/ \E p \in Procs : AskPassengers(p)
    \/ \E p \in Procs : ReviewBooking(p)

\* NumProcs messages whose handlers may overlap.
SpecConc == InitConc /\ [][NextConc]_vars


(***************************************************************************)
(* Two users confirm bookings of different departures.  u2 has reached the *)
(* review of a booking of the later departure of tomorrow; u1 has chosen   *)
(* the earlier one or is about to; their handlers overlap.                 *)
(***************************************************************************)
PathEarlier == <<M_1, M_uyo, M_lagos, M_tomorrow, M_1, M_1>>
PathLater   == <<M_1, M_uyo, M_lagos, M_tomorrow, M_2, M_1>>

\* What the two users send while their handlers overlap.
PairMessages == {M_1, M_yes, M_no}

InitPair ==
    \E k \in 4..Len(PathEarlier) :
        \E w \in {Converse(World(EmptyStore, InitRoutes, LedgerDepartures, <<>>,
                                 <<>>, [p \in Procs |-> IdleProc]),
                           Addressed("u1", SubSeq(PathEarlier, 1, k))
                              \o Addressed("u2", PathLater))} :
            /\ sessions = w.sessions
            /\ routes = w.routes
            /\ departures = w.departures
            /\ bookings = w.bookings
            /\ payments = w.payments
            /\ proc = w.proc
            /\ start = sessions
            /\ e2e = -1
            /\ pure = NoCall

NextPair ==
    \/ \E p \in Procs, waId \in Users, messageText \in PairMessages :
            Receive(p, waId, messageText)
    \/ \E p \in Procs : GetSession(p)
    \/ \E p \in Procs : Dispatch(p)
    \/ \E p \in Procs : AskDepartureChoice(p)
    \/ \E p \in Procs : AskPassengers(p)
    \/ \E p \in Procs : ReviewBooking(p)

\* NumProcs messages of two users about two departures, handlers overlapping.
SpecPair == InitPair /\ [][NextPair]_vars


(***************************************************************************)
(* One handler and a gateway that may leave a request unanswered.  The     *)
(* event loop of Node.js runs the continuation of an awaited call once     *)
(* the call has settled, so a handler that can take a step takes it.       *)
(***************************************************************************)
\* Lines 446-467: await axios.post(...) and what follows it.
ReviewBookingAwaited(p) ==
    /\ proc[p].pc \in ReviewSites
    /\ \E answer \in (IF proc[p].pc = "rb_pay" THEN GatewayAnswers
                      ELSE {"accepted"}) :
            \E w \in {ExecReviewBooking(TheWorld, p, answer)} : Becomes(w)
    /\ UNCHANGED <<start, e2e, pure>>

\* A step of handler p after the message has arrived.
HandlerStep(p) ==
    \/ GetSession(p)
    \/ Dispatch(p)
    \/ Command(p)
    \/ Welcome(p)
    \/ AskOrigin(p)
    \/ AskDestination(p)
    \/ AskDate(p)
    \/ AskDepartureChoice(p)
    \/ AskPassengers(p)
    \/ ReviewBookingAwaited(p)

NextAwaited ==
    \/ \E waId \in Users, messageText \in OverlappingMessages :
            Receive(1, waId, messageText)
    \/ HandlerStep(1)

SpecAwaited == InitConc /\ [][NextAwaited]_vars /\ WF_vars(HandlerStep(1))


(***************************************************************************)
(* The helper functions validateChoice and parseDateInput on their own:    *)
(* a call is drawn from the inputs below and the function is applied.      *)
(***************************************************************************)
ABUJA == <<"A","B","U","J","A">>

\* What a user may type where a choice is asked for.
ChoiceInputs ==
    {M_1, M_2, M_3, M_uyo, M_lagos, <<>>, <<"0">>, <<"-","1">>, <<"a","b","u","j","a">>,
     <<"A","B","U","J","A">>, <<" ","A","b","u","j","a"," ">>, <<"k","a","n","o">>,
     <<"1","a","b","c">>, <<"2"," ">>, <<"L","a","g","o","s">>}

\* The lists a choice is made from.
OptionLists ==
    {<<LAGOS, ABUJA>>, <<M_2, M_1>>, <<>>, <<UYO, LAGOS, ABUJA>>,
     <<M_lagos, LAGOS>>, <<UYO>>}

NextWord == <<"n","e","x","t"," ">>

\* What a user may type where a date is asked for.
DateInputs ==
    {M_today, M_tomorrow, <<" ","T","o","m","o","r","r","o","w"," ">>, <<"T","O","D","A","Y">>,
     <<"k","a","n","o">>, <<"n","e","x","t"," ","f","u","n","d","a","y">>}
    \cup {NextWord \o WeekDays[i] : i \in 1..7}
    \cup {<<"N","e","x","t"," ","M","o","n","d","a","y">>,
          <<"2","0","2","5","-","0","2","-","3","0">>, <<"2","0","2","4","-","0","1","-","0","1">>,
          <<"2","0","2","5","-","0","6","-","0","9">>, <<"2","0","2","5","-","0","6","-","1","0">>,
          <<"2","0","2","5","-","0","6","-","1","1">>, <<"2","0","2","5","-","0","6","-","1","7">>,
          <<"2","0","2","4","-","0","2","-","2","9">>, <<"2","0","2","5","-","0","2","-","2","9">>,
          <<"2","0","2","5","-","1","3","-","0","1">>, <<"2","0","2","5","-","0","0","-","1","0">>,
          <<"2","0","2","5","-","0","6","-","0","0">>, <<"2","0","2","5","-","0","6","-","3","1">>,
          <<"2","0","2","5","-","6","-","1","1">>, <<"2","0","2","6","-","0","1","-","0","1">>}

\* The days on which a date is parsed: a week from Today on, so that every
\* day of the week is the current day once, a day at the end of a month and
\* a day at the end of a year.
DaySpan == 7
ReferenceDays ==
    {Today + k : k \in 0..(DaySpan - 1)}
    \cup {DateUTC(2025, 5, 30), DateUTC(2023, 11, 31)}

InitPure ==
    /\ sessions = EmptyStore
    /\ routes = InitRoutes
    /\ departures = InitDepartures
    /\ bookings = <<>>
    /\ payments = <<>>
    /\ proc = [p \in Procs |-> IdleProc]
    /\ start = EmptyStore
    /\ e2e = -1
    /\ \/ \E input \in ChoiceInputs, options \in OptionLists :
            pure = [fn |-> "ready", input |-> input, options |-> options,
                    today |-> Today, result |-> <<>>]
       \/ \E input \in DateInputs, today \in ReferenceDays :
            pure = [fn |-> "ready", input |-> input, options |-> <<>>,
                    today |-> today, result |-> <<>>]

\* validateChoice(input, options) is called and returns.
ValidateChoice ==
    /\ pure.fn = "ready"
    /\ pure' = [pure EXCEPT !.fn = "validateChoice",
                            !.result = validateChoice(pure.input, pure.options)]
    /\ UNCHANGED <<sessions, routes, departures, bookings, payments, proc, start,
                   e2e>>

\* parseDateInput(input) is called on the day `today` and returns.
ParseDateInput ==
    /\ pure.fn = "ready"
    /\ pure' = [pure EXCEPT !.fn = "parseDateInput",
                            !.result = parseDateInput(pure.input, pure.today)]
    /\ UNCHANGED <<sessions, routes, departures, bookings, payments, proc, start,
                   e2e>>

NextPure == ValidateChoice \/ ParseDateInput

SpecPure == InitPure /\ [][NextPure]_vars


(***************************************************************************)
(* Properties                                                              *)
(***************************************************************************)
\* The passengers of the bookings of a departure, summed.
RECURSIVE BookedSeats(_, _)
BookedSeats(bs, d) ==
    IF bs = <<>> THEN 0
    ELSE (IF Head(bs).departure = d THEN Head(bs).passengers ELSE 0)
         + BookedSeats(Tail(bs), d)

\* The bookings are of different users.
DifferentUsers(bs) ==
    \A i, j \in 1..Len(bs) : i # j => bs[i].userId # bs[j].userId

BookingsOf(waId) == {i \in 1..Len(bookings) : bookings[i].userId = waId}
PaymentsOf(waId) == {i \in 1..Len(payments) : payments[i].waId = waId}

\* Every handler has returned or thrown.
AllResponded == \A p \in Procs : proc[p].pc = "respond"

\* The handlers handled an affirmative reply each, of different users who
\* both were in review_booking with a draft of three seats on d1, and the
\* gateway accepted what it was asked.
TwoConfirmations ==
    /\ AllResponded
    /\ proc[1].waId # proc[2].waId
    /\ \A p \in Procs :
          /\ toLowerCase(proc[p].messageText) \in {M_yes, M_confirm}
          /\ start[proc[p].waId] # <<>>
          /\ start[proc[p].waId][1].currentStep = "review_booking"
          /\ start[proc[p].waId][1].bookingDetails.passengers = <<3>>
          /\ start[proc[p].waId][1].bookingDetails.departureId = <<"d1">>
    /\ \A i \in 1..Len(payments) : payments[i].outcome = "accepted"

\* C1: whatever the interleaving of the confirmations of different users, no
\* departure has a negative number of seats left, and the passengers of the
\* bookings of a departure sum to at most the seats the departure started
\* with.
C1_NeverOversold ==
    \A d \in DepartureIds :
        /\ departures[d].availableSeats >= 0
        /\ DifferentUsers(bookings) =>
              BookedSeats(bookings, d) <= InitDepartures[d].availableSeats

\* C2: of two users who confirm three seats each on a departure with five
\* seats, exactly one gets a booking, the other is told that the seats are
\* gone, and two seats are left.
C2_OneOfTwoConfirmations ==
    TwoConfirmations =>
        /\ Len(bookings) = 1
        /\ \E p \in Procs : proc[p].reply = "not_enough_seats"
        /\ departures["d1"].availableSeats = InitSeats - 3

\* C3: the seats of every booking have been deducted from its departure.
C3_BookingAfterDecrement ==
    \A d \in DepartureIds :
        departures[d].availableSeats
            <= InitDepartures[d].availableSeats - BookedSeats(bookings, d)

\* C4: a user who passes through review_booking once causes at most one
\* request to the gateway and at most one booking, however the handlers of
\* the user's messages overlap.
C4_OnePaymentOneBooking ==
    \A u \in Users :
        /\ Cardinality(PaymentsOf(u)) <= 1
        /\ Cardinality(BookingsOf(u)) <= 1


\* u1 alone has sent the messages of the end-to-end scenario.
EndToEndDone == e2e = Len(EndToEndScript)

\* C5: after "book", "uyo", "lagos", "tomorrow", "1", "2", "yes" of a new user
\* there is exactly one booking, of two passengers for twice the fare, the
\* departure has two seats less, and the session is in welcome or in
\* awaiting_payment.
C5_EndToEnd ==
    EndToEndDone =>
        /\ Len(bookings) = 1
        /\ bookings[1].passengers = 2
        /\ bookings[1].totalAmount = 2 * InitFare
        /\ departures["d1"].availableSeats = InitSeats - 2
        /\ sessions["u1"] # <<>>
        /\ sessions["u1"][1].currentStep \in {"welcome", "awaiting_payment"}

\* The messages the specification calls global commands.
GlobalCommands == {M_menu, M_hi, M_start, M_reset, M_cancel}

\* C6: when menu, hi, start, reset or cancel has been handled, in whatever
\* step, the step of the session is welcome.
C6_GlobalCommandsToWelcome ==
    \A p \in Procs :
        (/\ proc[p].pc = "respond"
         /\ toLowerCase(proc[p].messageText) \in GlobalCommands)
        => /\ sessions[proc[p].waId] # <<>>
           /\ sessions[proc[p].waId][1].currentStep = "welcome"

\* What the claims compare of a session: step, booking draft and context.
SessionView(doc) ==
    IF doc = <<>> THEN <<>>
    ELSE <<doc[1].currentStep, doc[1].bookingDetails, doc[1].context>>

\* C7: when reset has been handled, from whatever state, the session is in
\* welcome with an empty draft and an empty context, and handling reset once
\* more leaves it so.
C7_ResetIdempotent ==
    \A p \in Procs :
        (/\ proc[p].pc = "respond"
         /\ toLowerCase(proc[p].messageText) = M_reset)
        => LET u == proc[p].waId
               again == HandledAlone(TheWorld, u, M_reset, "accepted")
           IN  /\ SessionView(sessions[u]) = <<"welcome", NoDetails, NoContext>>
               /\ SessionView(again.sessions[u]) = SessionView(sessions[u])

\* C8: the step of every stored session is one of the steps the schema
\* declares.
C8_StepInEnum ==
    \A u \in Users :
        sessions[u] # <<>> => sessions[u][1].currentStep \in StepEnum

\* The world in which the overlapping handlers started.
StartWorld == World(start, InitRoutes, InitDepartures, <<>>, <<>>,
                    [p \in Procs |-> IdleProc])

\* The session of a user after two messages handled one after the other.
SerialSession(waId, mA, oA, mB, oB) ==
    SessionView(HandledAlone(HandledAlone(StartWorld, waId, mA, oA),
                             waId, mB, oB).sessions[waId])

\* C9: when the handlers of two messages of one user, who had a session,
\* overlapped, the session they leave is the session that handling the
\* messages one after the other, in one of the two orders, leaves (stated for
\* messages other than menu, whose handling stores a step no handler accepts).
C9_Serializable ==
    (/\ AllResponded
     /\ proc[1].waId = proc[2].waId
     /\ start[proc[1].waId] # <<>>
     /\ \A p \in Procs : toLowerCase(proc[p].messageText) # M_menu)
    => LET u == proc[1].waId
           m1 == proc[1].messageText
           m2 == proc[2].messageText
       IN  \E o1, o2 \in GatewayOutcomes :
              \/ SessionView(sessions[u]) = SerialSession(u, m1, o1, m2, o2)
              \/ SessionView(sessions[u]) = SerialSession(u, m2, o2, m1, o1)

\* The awaited calls of updateBookingDetails and the fields they name.
DetailSites == {"ao_details", "ad_details", "dt_details", "dc_details",
                "ap_details", "ap_total"}
NamedAt(pc) ==
    CASE pc = "ao_details" -> {"origin"}
      [] pc = "ad_details" -> {"destination"}
      [] pc = "dt_details" -> {"date"}
      [] pc = "dc_details" -> {"departureId", "fare"}
      [] pc = "ap_details" -> {"passengers"}
      [] pc = "ap_total" -> {"totalAmount"}

\* The awaited calls of updateSessionContext and of updateSessionStep.
ContextAndStepSites == {"cmd_menu", "w_context", "w_step", "ao_context", "ao_step",
                        "ad_step", "dt_context", "dt_step", "dt_stay", "dc_step",
                        "ap_step", "rb_step", "rb_context"}

\* C10: a call of updateBookingDetails leaves every field of the draft that
\* the update does not name as it was, and a call of updateSessionContext or
\* of updateSessionStep leaves the whole draft as it was.
C10_DraftFrame ==
    [][\A p \in Procs :
          proc'[p] # proc[p] =>
             LET u == proc[p].waId
                 before == Upserted(sessions, u).bookingDetails
                 after == sessions'[u][1].bookingDetails
             IN  /\ proc[p].pc \in DetailSites =>
                       \A f \in BookingFields \ NamedAt(proc[p].pc) :
                           after[f] = before[f]
                 /\ proc[p].pc \in ContextAndStepSites => after = before]_vars

\* The total has just been written to a draft that still holds what the
\* earlier steps collected.
C10_DraftComplete ==
    \E p \in Procs :
        /\ proc[p].pc = "ap_session3"
        /\ sessions[proc[p].waId] # <<>>
        /\ \A f \in BookingFields :
              sessions[proc[p].waId][1].bookingDetails[f] # <<>>


\* C11: when the payment gateway declines or fails the initialisation request
\* of a confirmation, the Booking of the confirmed itinerary is recorded all
\* the same, under the reference of the request and with payment status
\* pending.
C11_BookingKeptOnGatewayFailure ==
    \A i \in 1..Len(payments) :
        payments[i].outcome # "accepted" =>
            \E j \in 1..Len(bookings) :
                /\ bookings[j].bookingReference = payments[i].reference
                /\ bookings[j].userId = payments[i].waId
                /\ bookings[j].paymentStatus = "pending"


\* The user's session is in a declared step, is not timed out, and its draft
\* is complete.
DraftComplete(u) ==
    /\ sessions[u] # <<>>
    /\ ~sessions[u][1].idle
    /\ \A f \in BookingFields : sessions[u][1].bookingDetails[f] # <<>>

\* The handler of a message of user u has just returned (in the serial
\* specification, where a handler runs from its call to its return).
Answered(u) ==
    /\ proc'[1].pc = "respond"
    /\ proc'[1].waId = u

\* C12: when "yes" or "confirm" arrives in review_booking and the departure
\* of the draft has fewer seats left than the draft has passengers, the
\* handler creates no Booking, changes no departure, sends no payment
\* request, answers that there are not enough seats, and leaves the session
\* in welcome with an empty draft.
C12_ShortageAborts ==
    [][\A u \in SerialUsers :
          (/\ DraftComplete(u)
           /\ sessions[u][1].currentStep = "review_booking"
           /\ Answered(u)
           /\ toLowerCase(proc'[1].messageText) \in {M_yes, M_confirm}
           /\ departures[sessions[u][1].bookingDetails.departureId[1]].availableSeats
                 < sessions[u][1].bookingDetails.passengers[1])
          => /\ bookings' = bookings
             /\ departures' = departures
             /\ payments' = payments
             /\ proc'[1].reply = "not_enough_seats"
             /\ sessions'[u] # <<>>
             /\ sessions'[u][1].currentStep = "welcome"
             /\ sessions'[u][1].bookingDetails = NoDetails]_vars

\* A confirmation has been refused for want of seats: the departure has
\* fewer seats than it had and the session is back in welcome.
C12_ShortageFound ==
    /\ proc[1].reply = "not_enough_seats"
    /\ \E d \in DepartureIds : departures[d].availableSeats < InitSeats
    /\ sessions["u1"] # <<>>
    /\ sessions["u1"][1].currentStep = "welcome"


\* The call of validateChoice that has returned, as the claims read it: the
\* input without the white space around it and in lower case.
ChoiceDone == pure.fn = "validateChoice"
Typed == toLowerCase(trim(pure.input))

\* C13: validateChoice returns an element of the list or no match, the same
\* for the same arguments; from ["LAGOS","ABUJA"], "1" gives "LAGOS", "abuja"
\* gives "ABUJA", "3" and "kano" give no match; and a number outside
\* 1..length of the list never resolves by position (a result then is an
\* option that the input names).
C13_ChoiceTotal ==
    ChoiceDone =>
        /\ \/ pure.result = <<>>
           \/ \E i \in 1..Len(pure.options) : pure.result = <<pure.options[i]>>
        /\ pure.result = validateChoice(pure.input, pure.options)
        /\ pure.options = <<LAGOS, ABUJA>> =>
              /\ pure.input = M_1 => pure.result = <<LAGOS>>
              /\ pure.input = <<"a","b","u","j","a">> => pure.result = <<ABUJA>>
              /\ pure.input \in {M_3, <<"k","a","n","o">>} => pure.result = <<>>
        /\ (\/ isNaN(parseInt(Typed))
            \/ parseInt(Typed) < 1
            \/ parseInt(Typed) > Len(pure.options)) =>
              \/ pure.result = <<>>
              \/ toLowerCase(pure.result[1]) = Typed

\* "3" has been typed where LAGOS and ABUJA were offered, and no option came
\* back.
C13_BeyondTheList ==
    /\ ChoiceDone
    /\ pure.options = <<LAGOS, ABUJA>>
    /\ pure.input = M_3
    /\ pure.result = <<>>


\* C14: when the input is, but for its case, an option of the list,
\* validateChoice returns an option that the input names, also when the input
\* reads as the position of another option.
C14_TextBeforePosition ==
    (/\ ChoiceDone
     /\ \E i \in 1..Len(pure.options) : toLowerCase(pure.options[i]) = Typed)
    => /\ pure.result # <<>>
       /\ toLowerCase(pure.result[1]) = Typed


\* The calendar, counted without Date: leap years, the lengths of the months
\* and the number of days from 1970-01-01 to a date of 1970 or later.
IsLeapYear(y) == (y % 4 = 0 /\ y % 100 # 0) \/ y % 400 = 0
DaysInMonth(y, m) ==
    IF m = 2 THEN (IF IsLeapYear(y) THEN 29 ELSE 28)
    ELSE IF m \in {4, 6, 9, 11} THEN 30 ELSE 31
IsRealDate(y, m, d) == m \in 1..12 /\ d \in 1..DaysInMonth(y, m)
RECURSIVE DaysBeforeYear(_)
DaysBeforeYear(y) ==
    IF y <= 1970 THEN 0
    ELSE DaysBeforeYear(y - 1) + (IF IsLeapYear(y - 1) THEN 366 ELSE 365)
RECURSIVE DaysBeforeMonth(_, _)
DaysBeforeMonth(y, m) ==
    IF m <= 1 THEN 0 ELSE DaysBeforeMonth(y, m - 1) + DaysInMonth(y, m - 1)
DayNumber(y, m, d) == DaysBeforeYear(y) + DaysBeforeMonth(y, m) + d - 1

\* The call of parseDateInput that has returned.
DateDone == pure.fn = "parseDateInput"
\* The input has the form YYYY-MM-DD; its three numbers.
TypedYMD ==
    /\ Len(Typed) = 10
    /\ Typed[5] = "-" /\ Typed[8] = "-"
    /\ \A i \in {1, 2, 3, 4, 6, 7, 9, 10} : Typed[i] \in {Digits[k] : k \in 1..10}
TypedYear == DigitsValue(SubSeq(Typed, 1, 4))
TypedMonth == DigitsValue(SubSeq(Typed, 6, 7))
TypedDay == DigitsValue(SubSeq(Typed, 9, 10))

\* C15: on the day R, parseDateInput returns R for "today" and R + 1 for
\* "tomorrow"; for YYYY-MM-DD it returns that day exactly when the three
\* numbers are a date of the calendar that is not before R, and null
\* otherwise; it never returns a day before R.
C15_DateParsing ==
    DateDone =>
        /\ Typed = M_today => pure.result = <<pure.today>>
        /\ Typed = M_tomorrow => pure.result = <<pure.today + 1>>
        /\ TypedYMD =>
              pure.result =
                 IF /\ IsRealDate(TypedYear, TypedMonth, TypedDay)
                    /\ DayNumber(TypedYear, TypedMonth, TypedDay) >= pure.today
                 THEN <<DayNumber(TypedYear, TypedMonth, TypedDay)>>
                 ELSE <<>>
        /\ pure.result # <<>> => pure.result[1] >= pure.today

\* A date of the claim has been parsed and refused: 2025-02-30, or
\* 2024-01-01 on 2025-06-10.
C15_DatesRefused ==
    /\ DateDone
    /\ TypedYMD
    /\ \/ TypedDay = 30 /\ TypedMonth = 2 /\ pure.result = <<>>
       \/ /\ TypedYear = 2024 /\ TypedMonth = 1
          /\ pure.today = DayNumber(2025, 6, 10) /\ pure.result = <<>>

\* 2024-01-01 has been parsed on 2023-12-31 and taken.
C15_DateTaken ==
    /\ DateDone
    /\ TypedYMD
    /\ pure.today = DayNumber(2023, 12, 31)
    /\ pure.result = <<DayNumber(2024, 1, 1)>>


\* The day of the week of a day number, 0 for Sunday, counted from a known
\* Sunday (2025-06-08).
WeekdayOf(day) == (day - DayNumber(2025, 6, 8)) % 7

\* C16: on every day R and for every day of the week W, "next W" gives the
\* one day D with R < D <= R + 7 that falls on W; when R falls on W that is
\* R + 7.
C16_NextWeekday ==
    \A k \in 1..7 :
        (DateDone /\ Typed = NextWord \o WeekDays[k]) =>
            /\ pure.result # <<>>
            /\ pure.result[1] > pure.today
            /\ pure.result[1] <= pure.today + 7
            /\ WeekdayOf(pure.result[1]) = k - 1

\* "next W" has been parsed on a day that falls on W, and the day a week
\* later came back.
C16_SameWeekday ==
    \E k \in 1..7 :
        /\ DateDone
        /\ Typed = NextWord \o WeekDays[k]
        /\ WeekdayOf(pure.today) = k - 1
        /\ pure.result = <<pure.today + 7>>


\* C17: a message handled while the session is in awaiting_payment (and has
\* not timed out) creates no Booking, sends no payment request and changes
\* no seat count, and unless it is the reset command it leaves the session
\* in awaiting_payment.
C17_AwaitingPaymentHolds ==
    [][\A u \in SerialUsers :
          (/\ sessions[u] # <<>>
           /\ ~sessions[u][1].idle
           /\ sessions[u][1].currentStep = "awaiting_payment"
           /\ Answered(u))
          => /\ bookings' = bookings
             /\ payments' = payments
             /\ departures' = departures
             /\ toLowerCase(proc'[1].messageText) # M_reset =>
                   /\ sessions'[u] # <<>>
                   /\ sessions'[u][1].currentStep = "awaiting_payment"]_vars


\* The fields of the draft that a step depends on.
NeededIn(step) ==
    CASE step = "ask_destination" -> {"origin"}
      [] step = "ask_date" -> {"origin", "destination"}
      [] step = "ask_passengers" ->
            {"origin", "destination", "date", "departureId", "fare"}
      [] step = "review_booking" ->
            {"origin", "destination", "date", "departureId", "fare",
             "passengers", "totalAmount"}
      [] OTHER -> {}

\* C18: in every state the draft of a session holds the fields its step
\* depends on: the origin in ask_destination, origin and destination in
\* ask_date, also date, departureId and fare in ask_passengers, and also
\* passengers and totalAmount in review_booking.
C18_StepDraftConsistent ==
    \A u \in Users :
        sessions[u] # <<>> =>
            \A f \in NeededIn(sessions[u][1].currentStep) :
                sessions[u][1].bookingDetails[f] # <<>>


\* A session as reset: welcome, empty draft, empty context.
ResetView == <<"welcome", NoDetails, NoContext>>

\* C19: a getSession that finds the session timed out returns a session in
\* welcome with an empty draft and an empty context, and the stored session
\* is that same whole reset from the one step on; the handler then treats
\* the message as one of the welcome step; a getSession that finds the
\* session not timed out returns what is stored and leaves step, draft and
\* context as they are.
C19_TimeoutResetsWhole ==
    [][\A p \in Procs :
          proc'[p] # proc[p] =>
             LET u == proc[p].waId
             IN  /\ (proc[p].pc = "entry" /\ proc[p].gs = "timeout") =>
                       /\ proc'[p].pc = "dispatch"
                       /\ SessionView(<<proc'[p].session>>) = ResetView
                       /\ SessionView(sessions'[u]) = ResetView
                 /\ (proc[p].pc = "entry" /\ proc[p].gs = ""
                        /\ sessions[u] # <<>> /\ ~sessions[u][1].idle) =>
                       /\ proc'[p].gs = "save"
                       /\ SessionView(<<proc'[p].session>>) = SessionView(sessions[u])
                       /\ sessions' = sessions
                 /\ (proc[p].pc = "entry" /\ proc[p].gs = "save"
                        /\ ~proc[p].isNew /\ proc'[p].pc = "dispatch") =>
                       /\ proc'[p].session = proc[p].session
                       /\ SessionView(sessions'[u]) = SessionView(sessions[u])
                 /\ (proc[p].pc = "dispatch"
                        /\ proc[p].session.currentStep = "welcome") =>
                       proc'[p].pc \in CommandSites \cup {"w_distinct", "respond"}]_vars

\* A message has arrived for a session that had timed out in
\* review_booking: getSession has returned a session in welcome and the
\* stored draft is empty.
C19_TimedOutInReview ==
    \E p \in Procs :
        /\ proc[p].pc = "dispatch"
        /\ \A q \in Procs \ {p} : proc[q].pc = "idle"
        /\ start[proc[p].waId] # <<>>
        /\ start[proc[p].waId][1].idle
        /\ start[proc[p].waId][1].currentStep = "review_booking"
        /\ proc[p].session.currentStep = "welcome"
        /\ SessionView(sessions[proc[p].waId]) = ResetView


\* C20: a step of the handler of a message of one user leaves the session
\* of every other user as it is, whatever the message and however the
\* handlers of the users interleave.
C20_OtherSessionsUntouched ==
    [][\A p \in Procs :
          proc'[p] # proc[p] =>
             \A u \in Users \ {proc'[p].waId} : sessions'[u] = sessions[u]]_vars

\* Messages of both users have been handled at the same time and each has
\* changed the session of its user.
C20_BothHandled ==
    \E p \in Procs, q \in Procs :
        /\ proc[p].waId = "u1" /\ proc[p].pc = "respond"
        /\ proc[q].waId = "u2" /\ proc[q].pc = "respond"
        /\ start["u1"] # <<>> /\ start["u2"] # <<>>
        /\ SessionView(sessions["u1"]) # SessionView(start["u1"])
        /\ SessionView(sessions["u2"]) # SessionView(start["u2"])


\* A step in which a message of user u was handled from its arrival to the
\* reply (a handler leaves the session of its user in the collection).
Handled(u) == Answered(u) /\ sessions'[u] # <<>>

\* The world after the message just handled, had the analyser found
\* `sentiment` in it and the gateway answered `outcome`.
HandledInstead(u, sentiment, outcome) ==
    RunToEnd([TheWorld EXCEPT !.proc[1] =
                 StartedWith(u, proc'[1].messageText, sentiment)], 1, outcome)

\* C21: the sentiment found in a message changes the wording of the reply
\* only: from the same sessions, catalog, ledger and gateway answer, the
\* same message leaves the same sessions, bookings, departures and payment
\* requests whether its sentiment is positive, neutral or negative.
C21_SentimentOnlyWording ==
    [][\A u \in SerialUsers :
          Handled(u) =>
             \A sentiment \in Sentiments :
                \E outcome \in GatewayOutcomes :
                   \E other \in {HandledInstead(u, sentiment, outcome)} :
                      /\ other.sessions = sessions'
                      /\ other.bookings = bookings'
                      /\ other.departures = departures'
                      /\ other.payments = payments'
                      /\ other.routes = routes']_vars

\* A confirmation in which the analyser found a positive sentiment has
\* created a booking and sent a payment request.
C21_PositiveConfirmation ==
    /\ proc[1].reply = "booking_created_fantastic"
    /\ Len(bookings) = 1
    /\ Len(payments) = 1
    /\ sessions["u1"][1].currentStep = "awaiting_payment"

\* C22: the handler of every message that arrives comes to its end with a
\* reply, whatever the step of the session and whatever the gateway does
\* with the payment request, leaving it unanswered included: a handler
\* that has not replied yet has a step to take (and takes it, by fairness).
C22_EveryMessageAnswered ==
    \/ proc[1].pc = "idle"
    \/ proc[1].pc = "respond" /\ proc[1].reply # ""
    \/ ENABLED HandlerStep(1)

\* The session a handler of a message of user u starts from: the stored one,
\* or the one getSession creates.
Before(u) == IF sessions[u] = <<>> THEN NewSession ELSE sessions[u][1]

\* The step, the draft and the context of user u are as before the message.
Kept(u) ==
    /\ sessions'[u][1].currentStep = Before(u).currentStep
    /\ sessions'[u][1].bookingDetails = Before(u).bookingDetails
    /\ sessions'[u][1].context = Before(u).context

\* The message just handled, as typed and in lower case.
Sent == proc'[1].messageText
SentLower == toLowerCase(proc'[1].messageText)

\* The words the engine knows in welcome, and the commands of every step.
WelcomeVocabulary == {M_1, M_2, M_3, M_booktrip, M_check, M_help}
CommandWords == {M_reset, M_menu, M_support}

\* A list holds each member of a set once and nothing else.
Lists(list, S) ==
    /\ {list[i] : i \in 1..Len(list)} = S
    /\ Len(list) = Cardinality(S)

\* C23: in welcome a message outside the vocabulary leaves step, draft and
\* context as they are; the choice to book moves the session to ask_origin
\* with the active origins of the catalog stored in the context when the
\* catalog has an active route, and leaves it in welcome when it has none.
C23_Welcome ==
    [][\A u \in SerialUsers :
          (Handled(u) /\ Before(u).currentStep = "welcome") =>
             LET active == {r \in DOMAIN routes : routes[r].isActive}
                 after == sessions'[u][1]
             IN  /\ (Sent \notin WelcomeVocabulary /\ SentLower \notin WelcomeVocabulary
                        /\ SentLower \notin CommandWords) => Kept(u)
                 /\ (Sent = M_1 \/ SentLower = M_booktrip) =>
                        IF active # {}
                        THEN /\ after.currentStep = "ask_origin"
                             /\ after.context.availableOrigins # <<>>
                             /\ Lists(after.context.availableOrigins[1],
                                      {routes[r].origin : r \in active})
                        ELSE after.currentStep = "welcome"]_vars

\* The user chose to book when no route was active and is still in welcome.
C23_NoActiveOrigin ==
    /\ proc[1].reply = "no_routes"
    /\ \A r \in DOMAIN routes : ~routes[r].isActive
    /\ sessions["u1"][1].currentStep = "welcome"

\* What a message handled from ask_origin or ask_destination must leave: a
\* reply that resolves against the stored list puts the chosen value, in
\* upper case, into the draft and takes the session one step on (`deadEnd`:
\* unless the session went back to welcome with an empty draft because the
\* chosen origin has no destination on an active route); any other reply
\* leaves step, draft and context as they are.
ChoiceFrame(u, deadEnd) ==
    LET before == Before(u)
        after  == sessions'[u][1]
        atOrigin == before.currentStep = "ask_origin"
        stored == ContextList(before, IF atOrigin THEN "availableOrigins"
                                      ELSE "availableDestinations")
        chosen == validateChoice(Sent, stored)
        field  == IF atOrigin THEN "origin" ELSE "destination"
    IN  IF chosen = <<>> THEN Kept(u)
        ELSE \/ /\ after.currentStep = IF atOrigin THEN "ask_destination" ELSE "ask_date"
                /\ after.bookingDetails =
                      [before.bookingDetails EXCEPT ![field] = <<toUpperCase(chosen[1])>>]
             \/ /\ deadEnd
                /\ atOrigin
                /\ ~\E r \in DOMAIN routes :
                       routes[r].isActive /\ routes[r].origin = toUpperCase(chosen[1])
                /\ after.currentStep = "welcome"
                /\ after.bookingDetails = NoDetails

\* A message that is no command was handled from ask_origin or
\* ask_destination.
ChoiceHandled(u) ==
    /\ Handled(u)
    /\ Before(u).currentStep \in {"ask_origin", "ask_destination"}
    /\ SentLower \notin CommandWords

\* C24 as amended: in ask_origin and ask_destination a reply that does not
\* resolve leaves step, draft and stored lists as they are; a reply that
\* resolves stores the chosen value in upper case and advances one step,
\* except that an origin without destination on an active route takes the
\* session back to welcome with an empty draft.
C24_ChoiceFrame ==
    [][\A u \in SerialUsers : ChoiceHandled(u) => ChoiceFrame(u, TRUE)]_vars

\* C24 as claimed: every reply that resolves stores the chosen value and
\* advances exactly one step.
C24_ChoiceAlwaysAdvances ==
    [][\A u \in SerialUsers : ChoiceHandled(u) => ChoiceFrame(u, FALSE)]_vars

\* The origin typed in lower case was resolved and is in the draft in upper
\* case; the session has moved to ask_destination.
C24_OriginStored ==
    /\ proc[1].reply = "ask_destination"
    /\ proc[1].messageText = M_uyo
    /\ sessions["u1"][1].bookingDetails.origin = <<UYO>>
    /\ sessions["u1"][1].currentStep = "ask_destination"

\* The decimal numeral of a position in a list of at most nine options.
Numeral(i) == <<Digits[i + 1]>>

\* C25: the list shown with a re-prompt of ask_origin or ask_destination is
\* the list stored in the context, in the same order, so that the number
\* shown next to a city resolves to that city in the next reply, also when
\* the catalog has changed since the list was first offered.
C25_RepromptShowsStoredList ==
    \A u \in SerialUsers :
       (/\ proc[1].pc = "respond"
        /\ proc[1].waId = u
        /\ proc[1].reply \in {"origin_not_recognized", "destination_not_recognized"}
        /\ proc[1].list # <<>>
        /\ sessions[u] # <<>>)
       => LET stored == ContextList(sessions[u][1],
                            IF proc[1].reply = "origin_not_recognized"
                            THEN "availableOrigins" ELSE "availableDestinations")
          IN  /\ proc[1].list = stored
              /\ \A i \in 1..Len(proc[1].list) :
                    validateChoice(Numeral(i), stored) = <<proc[1].list[i]>>

\* C26: a dead end never proceeds: in every state a session in
\* ask_destination holds a non-empty list of destinations and a session in
\* ask_departure_choice a non-empty list of departures.
C26_NoDeadEnd ==
    \A u \in Users :
       sessions[u] # <<>> =>
          /\ sessions[u][1].currentStep = "ask_destination" =>
                ContextList(sessions[u][1], "availableDestinations") # <<>>
          /\ sessions[u][1].currentStep = "ask_departure_choice" =>
                ContextList(sessions[u][1], "availableDepartures") # <<>>

\* What a message handled from ask_date must leave.  A date that does not
\* parse or is past leaves step, draft and context as they are.  With a date
\* of today or later, the session moves to ask_departure_choice when the
\* route of the draft has a scheduled departure with seats left on that UTC
\* day, the context then holding exactly those departures, earliest first,
\* and stays in ask_date when it has none.  `activeOnly`: the route is looked
\* for among the active routes, and the session goes back to welcome with an
\* empty draft when none matches.
DateFrame(u, activeOnly) ==
    LET before == Before(u)
        after  == sessions'[u][1]
        parsed == parseDateInput(Sent, Today)
        draft  == before.bookingDetails
        matching == {r \in DOMAIN routes :
                        /\ draft.origin = <<routes[r].origin>>
                        /\ draft.destination = <<routes[r].destination>>
                        /\ activeOnly => routes[r].isActive}
        onTheDay == {x \in DOMAIN departures :
                        /\ departures[x].route \in matching
                        /\ departures[x].status = "scheduled"
                        /\ departures[x].availableSeats > 0
                        /\ departures[x].departureTime \div HoursPerDay = parsed[1]}
        listed == ContextList(after, "availableDepartures")
    IN  IF parsed = <<>> THEN Kept(u)
        ELSE IF activeOnly /\ matching = {}
        THEN after.currentStep = "welcome" /\ after.bookingDetails = NoDetails
        ELSE IF onTheDay # {}
        THEN /\ after.currentStep = "ask_departure_choice"
             /\ Lists(listed, onTheDay)
             /\ \A i, j \in 1..Len(listed) :
                   i < j => departures[listed[i]].departureTime
                              < departures[listed[j]].departureTime
        ELSE after.currentStep = "ask_date"

\* A message that is no command was handled from ask_date.
DateHandled(u) ==
    /\ Handled(u)
    /\ Before(u).currentStep = "ask_date"
    /\ SentLower \notin CommandWords

\* C27 as amended: in ask_date a valid date moves the session to
\* ask_departure_choice exactly when the active route of the draft has a
\* scheduled departure with seats left within the chosen UTC day, the
\* stored list being exactly those departures in ascending order of
\* departure time; with none the step stays ask_date; when no active route
\* matches the draft the session is reset to welcome; an unparseable or past
\* date leaves step, draft and context unchanged.
C27_DateFrame ==
    [][\A u \in SerialUsers : DateHandled(u) => DateFrame(u, TRUE)]_vars

\* C27 as claimed: the route of the draft decides, active or not.
C27_DateFrameOfAnyRoute ==
    [][\A u \in SerialUsers : DateHandled(u) => DateFrame(u, FALSE)]_vars

\* The two departures of tomorrow have been offered, the one entered later
\* first because it leaves earlier.
C27_EarliestFirst ==
    /\ proc[1].reply = "departure_options"
    /\ sessions["u1"][1].currentStep = "ask_departure_choice"
    /\ sessions["u1"][1].context.availableDepartures = << <<"d2", "d1">> >>

\* A message that is no command was handled from `step`.
HandledFrom(u, step) ==
    /\ Handled(u)
    /\ Before(u).currentStep = step
    /\ SentLower \notin CommandWords

\* C28: in ask_departure_choice a reply that is not a number from 1 to the
\* length of the stored list leaves step, draft and context as they are;
\* the session reaches ask_passengers only when the departure at the chosen
\* position of the stored list exists in the ledger with seats left as the
\* message is handled, and the draft then holds the id of that departure
\* and its fare as read then; otherwise nothing changes.
C28_DepartureChoice ==
    [][\A u \in SerialUsers :
          HandledFrom(u, "ask_departure_choice") =>
             LET before == Before(u)
                 after  == sessions'[u][1]
                 stored == ContextList(before, "availableDepartures")
                 n      == parseInt(Sent)
             IN  IF isNaN(n) \/ n < 1 \/ n > Len(stored) THEN Kept(u)
                 ELSE IF /\ stored[n] \in DOMAIN departures
                         /\ departures[stored[n]].availableSeats > 0
                 THEN /\ after.currentStep = "ask_passengers"
                      /\ after.bookingDetails =
                            [before.bookingDetails EXCEPT
                                !.departureId = <<stored[n]>>,
                                !.fare = <<departures[stored[n]].fare>>]
                      /\ after.context = before.context
                 ELSE Kept(u)]_vars

\* A departure was chosen after its fare had been changed in the ledger: the
\* draft holds the fare read at the choice.
C28_FareReadAtChoice ==
    /\ proc[1].reply = "ask_passengers"
    /\ sessions["u1"][1].currentStep = "ask_passengers"
    /\ sessions["u1"][1].bookingDetails.departureId = <<"d1">>
    /\ sessions["u1"][1].bookingDetails.fare = <<RaisedFare>>
    /\ departures["d1"].fare = RaisedFare

C30_TotalIsFareTimesPassengers ==
    \A u \in Users :
       (sessions[u] # <<>> /\ sessions[u][1].currentStep = "review_booking") =>
          LET draft == sessions[u][1].bookingDetails
          IN  /\ draft.fare # <<>>
              /\ draft.passengers # <<>>
              /\ draft.totalAmount = <<draft.fare[1] * draft.passengers[1]>>


\* The tokens of review_booking and the three steps the claims let follow it.
Affirmative == {M_yes, M_confirm}
Negative == {M_no, M_cancel}
AfterReview == {"review_booking", "welcome", "awaiting_payment"}

\* A message of user u has been handled from a live session in review_booking.
Reviewed(u) ==
    /\ Handled(u)
    /\ sessions[u] # <<>>
    /\ ~sessions[u][1].idle
    /\ sessions[u][1].currentStep = "review_booking"

\* What a message handled in review_booking leaves behind: an affirmative
\* token ends in awaiting_payment with one more Booking or in welcome with an
\* empty draft and no Booking; a negative token ends in welcome without a
\* Booking; a message that is no token and no command leaves step, draft,
\* context, Bookings and seats alone.
ReviewOutcome(u) ==
    /\ SentLower \in Affirmative
          => \/ /\ sessions'[u][1].currentStep = "awaiting_payment"
                /\ Len(bookings') = Len(bookings) + 1
             \/ /\ sessions'[u][1].currentStep = "welcome"
                /\ sessions'[u][1].bookingDetails = NoDetails
                /\ bookings' = bookings
    /\ SentLower \in Negative
          => /\ sessions'[u][1].currentStep = "welcome"
             /\ bookings' = bookings
    /\ SentLower \notin Affirmative \cup Negative \cup GlobalCommands
          => /\ Kept(u)
             /\ bookings' = bookings
             /\ departures' = departures

\* C31: in review_booking a message that is neither an affirmative nor a
\* negative token leaves step, draft, context, Bookings and seat counts
\* unchanged, a negative token resets to welcome without a Booking, an
\* affirmative token ends in awaiting_payment with a Booking or in welcome
\* with an empty draft, and no step other than review_booking, welcome and
\* awaiting_payment follows review_booking.
C31_ReviewBookingOutcomes ==
    [][\A u \in SerialUsers :
          Reviewed(u)
          => /\ ReviewOutcome(u)
             /\ sessions'[u][1].currentStep \in AfterReview]_vars

\* The same without the menu command.
C31_ReviewBookingOutcomesButMenu ==
    [][\A u \in SerialUsers :
          (Reviewed(u) /\ SentLower # M_menu)
          => /\ ReviewOutcome(u)
             /\ sessions'[u][1].currentStep \in AfterReview]_vars

\* The draft fields a step requires of the steps before it.
EarlierFields ==
    [ask_passengers |-> {"origin", "destination", "date", "departureId", "fare"},
     review_booking |-> BookingFields]

\* The step of user u, about to handle the message, is short of a field it
\* requires, or the departure its draft refers to is no longer in the ledger.
Inconsistent(u, step) ==
    /\ Before(u).currentStep = step
    /\ \/ \E f \in EarlierFields[step] : Before(u).bookingDetails[f] = <<>>
       \/ /\ Before(u).bookingDetails.departureId # <<>>
          /\ Before(u).bookingDetails.departureId[1] \notin DOMAIN departures

\* C32: when ask_passengers, or review_booking on an affirmative token, finds
\* a required draft field missing or the departure of the draft gone, the
\* session is reset to welcome with an empty draft, the user is told so, and
\* no Booking is created, no seat count changes and no payment request is
\* sent.
C32_InconsistencyResets ==
    [][\A u \in SerialUsers :
          (/\ Handled(u)
           /\ \/ Inconsistent(u, "ask_passengers")
              \/ Inconsistent(u, "review_booking") /\ SentLower \in Affirmative)
          => /\ sessions'[u][1].currentStep = "welcome"
             /\ sessions'[u][1].bookingDetails = NoDetails
             /\ proc'[1].reply \in {"missing_details", "departure_not_found"}
             /\ bookings' = bookings
             /\ departures' = departures
             /\ payments' = payments]_vars

\* The same for review_booking alone.
C32_ReviewInconsistencyResets ==
    [][\A u \in SerialUsers :
          (/\ Handled(u)
           /\ Inconsistent(u, "review_booking")
           /\ SentLower \in Affirmative)
          => /\ sessions'[u][1].currentStep = "welcome"
             /\ sessions'[u][1].bookingDetails = NoDetails
             /\ proc'[1].reply \in {"missing_details", "departure_not_found"}
             /\ bookings' = bookings
             /\ departures' = departures
             /\ payments' = payments]_vars

\* Handler p is carrying out a confirmation while handler q carries out, or
\* has carried out, the confirmation of another user, and no other handler
\* has a message of the user of p.
ConfirmingBeside(p, q) ==
    /\ q # p
    /\ \A r \in Procs \ {p} : proc[r].pc = "idle" \/ proc[r].waId # proc[p].waId
    /\ proc[p].pc \in ReviewSites
    /\ toLowerCase(proc[p].messageText) \in Affirmative
    /\ proc[q].pc \in ReviewSites \cup {"respond"}
    /\ toLowerCase(proc[q].messageText) \in Affirmative
    /\ proc[q].waId # proc[p].waId

\* The reply that ends a confirmation whose payment request the gateway
\* answered with `outcome`.
ReplyAfter(outcome) ==
    CASE outcome = "accepted" -> "booking_created"
      [] outcome = "declined" -> "payment_not_initiated"
      [] outcome = "failed"   -> "payment_error"

\* C33: the seats of a departure change only in the step of a confirmation
\* that saves the Booking, and only those of the departure of that
\* confirmation; every other step of every handler leaves all seat counts
\* as they are; and a confirmation carried out beside the confirmation of
\* another user against another departure always has a next step and ends
\* with the reply that its own payment request earned.
C33_SeatsFrame ==
    [][/\ \A d \in DOMAIN departures :
            (\/ d \notin DOMAIN departures'
             \/ departures'[d].availableSeats # departures[d].availableSeats)
            => \E p \in Procs : /\ proc[p].pc = "rb_save"
                                /\ proc'[p].pc = "rb_step"
                                /\ proc[p].chosen = <<d>>
       /\ \A p, q \in Procs :
            ConfirmingBeside(p, q)
            => /\ ENABLED ReviewBooking(p)
               /\ proc'[p].pc = "respond"
                     => proc'[p].reply = ReplyAfter(payments[proc[p].ref].outcome)]_vars

\* Both users have confirmed with overlapping handlers, u1 the earlier and
\* u2 the later departure: the first handler has answered, the second has
\* saved its Booking and not yet answered, and every departure has the seats
\* the ledger began with.
C33_TwoDeparturesConfirmed ==
    /\ \E p, q \in Procs :
          /\ proc[p].pc = "respond" /\ proc[p].reply = "booking_created"
          /\ proc[q].pc = "rb_step"
          /\ proc[p].chosen # proc[q].chosen
    /\ {bookings[i].departure : i \in 1..Len(bookings)} = {"d1", "d2"}
    /\ \A d \in LedgerIds : departures[d].availableSeats = InitSeats

\* The payment reference a persisted Booking carries, if it carries one.
PaymentReferenceOf(booking) ==
    IF "paymentReference" \in DOMAIN booking THEN <<booking.paymentReference>>
    ELSE <<>>

\* The context of the session of user u records a Booking of u and the
\* payment reference of that Booking.
BookingRecorded(u) ==
    LET context == sessions[u][1].context
    IN  /\ context.currentBookingId # <<>>
        /\ context.paymentGatewayReference # <<>>
        /\ context.currentBookingId[1] \in 1..Len(bookings)
        /\ bookings[context.currentBookingId[1]].userId = u
        /\ PaymentReferenceOf(bookings[context.currentBookingId[1]])
              = context.paymentGatewayReference

\* C34: in every state in which the step of a session is awaiting_payment,
\* the context of the session holds currentBookingId and
\* paymentGatewayReference, currentBookingId is an existing Booking of that
\* user, and the payment reference of that Booking is
\* paymentGatewayReference.
C34_AwaitingPaymentRecorded ==
    \A u \in Users :
        (sessions[u] # <<>> /\ sessions[u][1].currentStep = "awaiting_payment")
        => BookingRecorded(u)

\* The same once the handlers have returned, with the booking reference read
\* as the payment reference of the Booking.
C34_RecordedWhenAnswered ==
    \A u \in Users :
        (/\ \A p \in Procs : proc[p].pc \in {"idle", "respond"}
         /\ sessions[u] # <<>>
         /\ sessions[u][1].currentStep = "awaiting_payment")
        => LET context == sessions[u][1].context
           IN  /\ context.currentBookingId # <<>>
               /\ context.paymentGatewayReference # <<>>
               /\ context.currentBookingId[1] \in 1..Len(bookings)
               /\ bookings[context.currentBookingId[1]].userId = u
               /\ <<bookings[context.currentBookingId[1]].bookingReference>>
                     = context.paymentGatewayReference

\* The payment requests the gateway has accepted, and the Bookings persisted
\* under a reference.
Initialized(requests) ==
    {requests[i].reference : i \in {j \in 1..Len(requests) :
                                        requests[j].outcome = "accepted"}}
BookingsUnder(saved, reference) ==
    {i \in 1..Len(saved) : saved[i].bookingReference = reference}

\* C35: when the handling of a message ends, every payment reference that a
\* successful payment initialization returned is recorded on exactly one
\* persisted Booking, also when saving the Booking failed.
C35_NoPaymentWithoutBooking ==
    [][\A u \in SerialUsers :
          Handled(u)
          => \A reference \in Initialized(payments') \ Initialized(payments) :
                Cardinality(BookingsUnder(bookings', reference)) = 1]_vars

\* The same when every save succeeds.
C35_BookingPerPaymentWhenSaved ==
    [][\A u \in SerialUsers :
          (Handled(u) /\ proc'[1].reply # "payment_error")
          => \A reference \in Initialized(payments') \ Initialized(payments) :
                Cardinality(BookingsUnder(bookings', reference)) = 1]_vars

\* The Bookings that the message just handled created.
Created == {bookings'[i] : i \in (Len(bookings) + 1)..Len(bookings')}

\* C36: no Booking is created against a departure whose status, as the
\* affirmative reply is handled, is not scheduled; a departure that was
\* listed as scheduled and was cancelled before the reply cannot be booked.
C36_OnlyScheduledBooked ==
    [][\A u \in SerialUsers :
          Handled(u)
          => \A booking \in Created :
                /\ booking.departure \in DOMAIN departures
                /\ departures[booking.departure].status = "scheduled"]_vars

\* A Booking is created only against a departure that is in the ledger.
C36_OnlyExistingBooked ==
    [][\A u \in SerialUsers :
          Handled(u)
          => \A booking \in Created : booking.departure \in DOMAIN departures]_vars

\* Both handlers have returned from messages of user u, who had no session
\* before them.
BothAnswered(u) ==
    /\ start[u] = <<>>
    /\ \A p \in Procs : /\ proc[p].pc = "respond"
                        /\ proc[p].waId = u
                        /\ toLowerCase(proc[p].messageText) \notin CommandWords

\* C37: when two first-contact messages of a new user have been handled
\* with overlapping execution, the user has one Session and each of the two
\* handlings has ended with its reply; neither has failed because the other
\* created the session first.
C37_BothFirstContactsHandled ==
    \A u \in Users :
        BothAnswered(u)
        => /\ sessions[u] # <<>>
           /\ \A p \in Procs : proc[p].reply \notin {"", "error"}

\* What a fare of 0 does to a conversation: a departure chosen in
\* ask_departure_choice is stored with the fare it has in the ledger, 0
\* included, and a message handled in ask_passengers from a draft whose
\* stored fare is 0 resets the session and creates no Booking.
ZeroFareFlow(u) ==
    /\ (HandledFrom(u, "ask_departure_choice")
        /\ sessions'[u][1].currentStep = "ask_passengers")
          => LET chosen == sessions'[u][1].bookingDetails.departureId
             IN  /\ chosen # <<>>
                 /\ chosen[1] \in DOMAIN departures
                 /\ sessions'[u][1].bookingDetails.fare
                       = <<departures[chosen[1]].fare>>
    /\ (HandledFrom(u, "ask_passengers") /\ Before(u).bookingDetails.fare = <<0>>)
          => /\ sessions'[u][1].currentStep = "welcome"
             /\ sessions'[u][1].bookingDetails = NoDetails
             /\ proc'[1].reply = "missing_details"
             /\ bookings' = bookings

\* C38: a departure whose fare is 0 can be chosen in ask_departure_choice,
\* the next message in ask_passengers takes the stored fare 0 for a missing
\* field and resets the session, and no Booking is ever created for a
\* departure whose fare is 0.
C38_ZeroFareNeverBooked ==
    [][\A u \in SerialUsers :
          Handled(u)
          => /\ ZeroFareFlow(u)
             /\ \A booking \in Created :
                   booking.departure \in DOMAIN departures
                   => departures[booking.departure].fare # 0]_vars

\* C38 as amended: a departure whose fare is 0 can be chosen in
\* ask_departure_choice, the next message in ask_passengers takes the
\* stored fare 0 for a missing field and resets the session, and no Booking
\* is ever created from a draft whose stored fare is 0.
C38_ZeroStoredFareNeverBooked ==
    [][\A u \in SerialUsers :
          Handled(u)
          => /\ ZeroFareFlow(u)
             /\ Created # {} => Before(u).bookingDetails.fare \notin {<<>>, <<0>>}]_vars

\* The departure at fare 0 was chosen and the next message, in
\* ask_passengers, has reset the session: no Booking, the departure still
\* in the ledger at fare 0.
C38_ZeroFareReset ==
    /\ proc[1].reply = "missing_details"
    /\ sessions["u1"] # <<>>
    /\ sessions["u1"][1].currentStep = "welcome"
    /\ "d1" \in DOMAIN departures
    /\ departures["d1"].fare = 0
    /\ bookings = <<>>
====
